---- MODULE Spec2Model ----
(***************************************************************************)
(* Model of specklesnake: the B-spline surface (model/spline.py), the knot *)
(* vector utilities (util/spline_knot.py) and the basis function evaluator *)
(* (util/spline_basis.py).                                                 *)
(*                                                                         *)
(* Numbers.  Python floats are modelled as exact rationals <<n, d>> with   *)
(* d > 0 and gcd(n, d) = 1.  The tolerances of numpy.allclose are kept as  *)
(* they are in the code (atol 1e-8, rtol 1e-5, find_span's rtol 1e-6);     *)
(* rounding error of the floating point operations themselves is not       *)
(* modelled.  A division by zero yields numpy's non-finite result, which   *)
(* is modelled by the single absorbing value NonFinite.                    *)
(*                                                                         *)
(* Optional values.  Python's None is <<>> and a set value v is <<v>>, so  *)
(* that an unset field can be compared with a set one.                     *)
(***************************************************************************)
EXTENDS Integers, Sequences, FiniteSets, TLC

VARIABLES degree_u, degree_v, num_control_points_u, num_control_points_v,
          control_points, knot_vector_u, knot_vector_v, call, fs, gu, bf,
          interpolator, zn

surface == <<degree_u, degree_v, num_control_points_u, num_control_points_v,
             control_points, knot_vector_u, knot_vector_v>>

vars == <<degree_u, degree_v, num_control_points_u, num_control_points_v,
          control_points, knot_vector_u, knot_vector_v, call, fs, gu, bf,
          interpolator, zn>>

(***************************************************************************)
(* Bounds of the model.                                                    *)
(***************************************************************************)
MaxDegree == 2

MaxNumCtrlpts == 3

LargeKnot == 2000000
\* Largest number of control points of the uniform vectors find_span searches.
MaxSpanCtrlpts == 5

(***************************************************************************)
(* Optional values.                                                        *)
(***************************************************************************)
None == <<>>

Some(v) == <<v>>

Val(o) == o[1]

(***************************************************************************)
(* Exact rational arithmetic.                                              *)
(***************************************************************************)
Abs(x) == IF x < 0 THEN -x ELSE x

RECURSIVE GCD(_, _)
GCD(a, b) == IF b = 0 THEN a ELSE GCD(b, a % b)

Rat(n, d) ==
    LET g == GCD(Abs(n), Abs(d))
        s == IF d < 0 THEN -1 ELSE 1
    IN  <<s * (n \div g), s * (d \div g)>>

R(n) == <<n, 1>>

LCM(a, b) == (a \div GCD(a, b)) * b

RAdd(a, b) ==
    LET l == LCM(a[2], b[2])
    IN  Rat(a[1] * (l \div a[2]) + b[1] * (l \div b[2]), l)

RNeg(a) == <<-a[1], a[2]>>

RSub(a, b) == RAdd(a, RNeg(b))

RMul(a, b) ==
    LET g1 == GCD(Abs(a[1]), b[2])
        g2 == GCD(Abs(b[1]), a[2])
    IN  IF a[1] = 0 \/ b[1] = 0 THEN R(0)
        ELSE Rat((a[1] \div g1) * (b[1] \div g2), (a[2] \div g2) * (b[2] \div g1))

RInv(a) == IF a[1] < 0 THEN <<-a[2], -a[1]>> ELSE <<a[2], a[1]>>

RDiv(a, b) == RMul(a, RInv(b))

RAbs(a) == <<Abs(a[1]), a[2]>>

RLe(a, b) ==
    LET l == LCM(a[2], b[2])
    IN  a[1] * (l \div a[2]) <= b[1] * (l \div b[2])

RLt(a, b) == ~RLe(b, a)

(***************************************************************************)
(* Floats as numpy computes them: a finite value is a rational, the result *)
(* of a division by zero (inf or nan) is NonFinite and stays non-finite    *)
(* under the additions, multiplications and divisions by a knot difference *)
(* that the evaluators apply to it.                                        *)
(***************************************************************************)
NonFinite == <<0, 0>>

IsFinite(x) == x[2] # 0

FAdd(x, y) == IF IsFinite(x) /\ IsFinite(y) THEN RAdd(x, y) ELSE NonFinite

FSub(x, y) == IF IsFinite(x) /\ IsFinite(y) THEN RSub(x, y) ELSE NonFinite

FMul(x, y) == IF IsFinite(x) /\ IsFinite(y) THEN RMul(x, y) ELSE NonFinite

FDiv(x, y) ==
    IF IsFinite(x) /\ IsFinite(y) /\ y[1] # 0 THEN RDiv(x, y) ELSE NonFinite

(***************************************************************************)
(* numpy.allclose(a, b, rtol): |a - b| <= atol + rtol * |b|, with          *)
(* atol = 1 / AtolInv and rtol = 1 / rtolInv.  A comparison with a         *)
(* non-finite value is False.  Both sides are brought to the common        *)
(* denominator l and multiplied by AtolInv; the left side is an integer,   *)
(* so comparing it with the floor of the right side is exact.              *)
(***************************************************************************)
AtolInv == 100000000

RtolInvDefault == 100000

RtolInvFindSpan == 1000000

AllClose(a, b, rtolInv) ==
    IF ~(IsFinite(a) /\ IsFinite(b)) THEN FALSE
    ELSE LET diff == RAbs(RSub(a, b))
             l    == LCM(diff[2], b[2])
             dn   == diff[1] * (l \div diff[2])
             bn   == Abs(b[1]) * (l \div b[2])
         IN  dn <= (l + bn * (AtolInv \div rtolInv)) \div AtolInv

(***************************************************************************)
(* Sequence helpers.  Python indexes from 0, TLA+ from 1: At(s, i) is the  *)
(* Python s[i].                                                            *)
(***************************************************************************)
At(s, i) == s[i + 1]

SeqsOfLen(S, n) == [1..n -> S]

RECURSIVE SeqMax(_)
SeqMax(s) ==
    IF Len(s) = 1 THEN s[1]
    ELSE LET m == SeqMax(Tail(s)) IN IF RLe(m, s[1]) THEN s[1] ELSE m

RECURSIVE SeqMin(_)
SeqMin(s) ==
    IF Len(s) = 1 THEN s[1]
    ELSE LET m == SeqMin(Tail(s)) IN IF RLe(s[1], m) THEN s[1] ELSE m

(***************************************************************************)
(* util/spline_knot.py                                                     *)
(***************************************************************************)
\* normalize: (knot_vector - min) * (1 / (max - min)); a constant vector
\* divides by zero and every entry becomes non-finite.
normalize(knot_vector) ==
    LET max_knot == SeqMax(knot_vector)
        min_knot == SeqMin(knot_vector)
        scale    == FDiv(R(1), RSub(max_knot, min_knot))
    IN  [i \in 1..Len(knot_vector) |->
            FMul(RSub(knot_vector[i], min_knot), scale)]

\* A float comparison with a nan operand is False.
FLt(x, y) == IsFinite(x) /\ IsFinite(y) /\ RLt(x, y)

\* np.max of an empty array raises ValueError inside normalize.
check_knot_vector_raises(knot_vector) == Len(knot_vector) = 0

check_knot_vector_unordered(degree, knot_vector, num_ctrlpts) ==
    LET kv == normalize(knot_vector)
    IN  IF Len(kv) # num_ctrlpts + degree + 1 THEN FALSE
        ELSE IF ~(\A i \in 0..degree : AllClose(R(0), At(kv, i), RtolInvDefault))
        THEN FALSE
        ELSE AllClose(R(1), At(kv, Len(kv) - (degree + 1)), RtolInvDefault)

check_knot_vector(degree, knot_vector, num_ctrlpts) ==
    LET kv == normalize(knot_vector)
    IN  IF Len(kv) # num_ctrlpts + degree + 1 THEN FALSE
        ELSE IF ~(\A i \in 0..degree : AllClose(R(0), At(kv, i), RtolInvDefault))
        THEN FALSE
        ELSE IF ~AllClose(R(1), At(kv, Len(kv) - (degree + 1)), RtolInvDefault)
        THEN FALSE
        ELSE ~(\E i \in 1..(Len(kv) - 1) : FLt(At(kv, i), At(kv, i - 1)))

\* np.linspace(0, 1, num): num evenly spaced values from 0 to 1.
linspace01(num) ==
    [i \in 1..num |-> IF num = 1 THEN R(0) ELSE Rat(i - 1, num - 1)]

generate_uniform_extra_zero(degree, num_ctrlpts) ==
    LET length_knot_vector == num_ctrlpts + degree + 1
        num_middle_knots   == length_knot_vector - 2 * degree
        middle_knot_vector == linspace01(num_middle_knots)
    IN  [i \in 1..(degree + 1) |-> R(0)] \o middle_knot_vector
            \o [i \in 1..degree |-> R(1)]

generate_uniform(degree, num_ctrlpts) ==
    LET length_knot_vector == num_ctrlpts + degree + 1
        num_middle_knots   == length_knot_vector - 2 * degree
        middle_knot_vector == linspace01(num_middle_knots)
    IN  [i \in 1..degree |-> R(0)] \o middle_knot_vector
            \o [i \in 1..degree |-> R(1)]

\* find_span, the edge case: the knot is allclose to knot_vector[num_ctrlpts].
find_span_edge_case(num_ctrlpts, knot, knot_vector) ==
    AllClose(knot, At(knot_vector, num_ctrlpts), RtolInvFindSpan)

find_span_edge_result_off_by_one(num_ctrlpts) == num_ctrlpts

find_span_edge_result(num_ctrlpts) == num_ctrlpts - 1

\* find_span, the first midpoint: the average of low and high, rounded up.
find_span_first_mid(low, high) ==
    LET mid_sum == low + high
    IN  IF mid_sum % 2 = 0 THEN mid_sum \div 2 ELSE (mid_sum + 1) \div 2

find_span_loop_condition_upper_only(knot, knot_vector, mid) ==
    RLt(At(knot_vector, mid + 1), knot)

\* find_span, the loop condition.
find_span_loop_condition(knot, knot_vector, mid) ==
    RLt(knot, At(knot_vector, mid)) \/ RLt(At(knot_vector, mid + 1), knot)

\* find_span, the body of the loop: the bounds and the midpoint after one
\* iteration.
find_span_loop_body(knot, knot_vector, low, high, mid) ==
    LET low2  == IF RLt(knot, At(knot_vector, mid)) THEN low ELSE mid
        high2 == IF RLt(knot, At(knot_vector, mid)) THEN mid ELSE high
    IN  [low |-> low2, high |-> high2, mid |-> (low2 + high2) \div 2]

\* find_span run to its return, for arguments on which the loop ends.
RECURSIVE find_span_search(_, _, _, _, _)
find_span_search(knot, knot_vector, low, high, mid) ==
    IF ~find_span_loop_condition(knot, knot_vector, mid) THEN mid
    ELSE LET b == find_span_loop_body(knot, knot_vector, low, high, mid)
         IN  find_span_search(knot, knot_vector, b.low, b.high, b.mid)

find_span(num_ctrlpts, degree, knot, knot_vector) ==
    IF find_span_edge_case(num_ctrlpts, knot, knot_vector)
    THEN find_span_edge_result(num_ctrlpts)
    ELSE find_span_search(knot, knot_vector, degree, num_ctrlpts,
                          find_span_first_mid(degree, num_ctrlpts))

(***************************************************************************)
(* util/spline_basis.py.  The arrays N, left and right are functions on    *)
(* 0..degree.                                                              *)
(***************************************************************************)
\* left[j] = knot - knot_vector[knot_span + 1 - j]
basis_left(knot, knot_vector, knot_span, j) ==
    RSub(knot, At(knot_vector, knot_span + 1 - j))

\* right[j] = knot_vector[knot_span + j] - knot
basis_right(knot, knot_vector, knot_span, j) ==
    RSub(At(knot_vector, knot_span + j), knot)

RECURSIVE basis_functions_inner_saved_right(_, _, _, _, _, _)
basis_functions_inner_saved_right(N, left, right, j, r, saved) ==
    IF r >= j THEN [N EXCEPT ![j] = saved]
    ELSE LET temp == FDiv(N[r], FAdd(right[r + 1], left[j - r]))
         IN  basis_functions_inner_saved_right(
                 [N EXCEPT ![r] = FAdd(saved, FMul(right[r + 1], temp))],
                 left, right, j, r + 1, FMul(right[r + 1], temp))

\* The loop over r in range(0, j), followed by N[j] = saved.
RECURSIVE basis_functions_inner(_, _, _, _, _, _)
basis_functions_inner(N, left, right, j, r, saved) ==
    IF r >= j THEN [N EXCEPT ![j] = saved]
    ELSE LET temp == FDiv(N[r], FAdd(right[r + 1], left[j - r]))
         IN  basis_functions_inner(
                 [N EXCEPT ![r] = FAdd(saved, FMul(right[r + 1], temp))],
                 left, right, j, r + 1, FMul(left[j - r], temp))

\* The loop over j in range(1, degree + 1).
RECURSIVE basis_functions_outer(_, _, _, _, _, _, _, _)
basis_functions_outer(N, left, right, j, knot_span, knot, degree, knot_vector) ==
    IF j > degree THEN N
    ELSE LET left_j  == [left EXCEPT
                            ![j] = basis_left(knot, knot_vector, knot_span, j)]
             right_j == [right EXCEPT
                            ![j] = basis_right(knot, knot_vector, knot_span, j)]
         IN  basis_functions_outer(
                 basis_functions_inner(N, left_j, right_j, j, 0, R(0)),
                 left_j, right_j, j + 1, knot_span, knot, degree, knot_vector)

basis_functions(knot_span, knot, degree, knot_vector) ==
    basis_functions_outer([i \in 0..degree |-> R(1)],
                          [i \in 0..degree |-> R(0)],
                          [i \in 0..degree |-> R(0)],
                          1, knot_span, knot, degree, knot_vector)

\* A for loop over range(lo, hi + 1): Body(i, st) is the state after
\* iteration i entered with state st.  The state an iteration is entered
\* with is computed before the body is applied to it, as the loop does.
For(Body(_, _), lo, hi, st0) ==
    LET f[i \in (lo - 1)..hi] ==
            IF i = lo - 1 THEN st0
            ELSE CHOOSE st \in {Body(i, prev) : prev \in {f[i - 1]}} : TRUE
    IN  IF hi < lo THEN st0 ELSE f[hi]

\* np.ones((rows, cols)) and np.zeros((rows, cols)), indexed from zero.
Ones2(rows, cols) == [i \in 0..(rows - 1), j \in 0..(cols - 1) |-> R(1)]

Zeros2(rows, cols) == [i \in 0..(rows - 1), j \in 0..(cols - 1) |-> R(0)]

\* basis_function_ders, "Create basis function triangles": the table ndu.
basis_function_ders_ndu(knot_span, knot, degree, knot_vector) ==
    For(LAMBDA j, s :
            LET left  == [s.left EXCEPT
                             ![j] = basis_left(knot, knot_vector, knot_span, j)]
                right == [s.right EXCEPT
                             ![j] = basis_right(knot, knot_vector, knot_span, j)]
                inner ==
                    For(LAMBDA r, t :
                            LET den  == FAdd(right[r + 1], left[j - r])
                                temp == FDiv(t.ndu[r, j - 1], den)
                            IN  [ndu   |-> [t.ndu EXCEPT
                                               ![j, r] = den,
                                               ![r, j] = FAdd(t.saved,
                                                    FMul(right[r + 1], temp))],
                                 saved |-> FMul(left[j - r], temp)],
                        0, j - 1, [ndu |-> s.ndu, saved |-> R(0)])
            IN  [ndu   |-> [inner.ndu EXCEPT ![j, j] = inner.saved],
                 left  |-> left,
                 right |-> right],
        1, degree,
        [ndu   |-> Ones2(degree + 1, degree + 1),
         left  |-> [i \in 0..degree |-> R(1)],
         right |-> [i \in 0..degree |-> R(1)]]).ndu

\* basis_function_ders, one pass of the loop "to kth derivative" for basis
\* function r: t holds the buffer a, its row indices s1 and s2, and ders.
basis_function_ders_kth(ndu, degree, r, k, t) ==
    LET s1 == t.s1
        s2 == t.s2
        rk == r - k
        pk == degree - k
        a1 == IF r >= k
              THEN [t.a EXCEPT ![s2, 0] = FDiv(t.a[s1, 0], ndu[pk + 1, rk])]
              ELSE t.a
        d1 == IF r >= k THEN FMul(a1[s2, 0], ndu[rk, pk]) ELSE R(0)
        j1 == IF rk >= -1 THEN 1 ELSE -rk
        j2 == IF r - 1 <= pk THEN k - 1 ELSE degree - r
        in == For(LAMBDA j, w :
                      LET v == FDiv(FSub(w.a[s1, j], w.a[s1, j - 1]),
                                    ndu[pk + 1, rk + j])
                      IN  [a |-> [w.a EXCEPT ![s2, j] = v],
                           d |-> FAdd(w.d, FMul(v, ndu[rk + j, pk]))],
                  j1, j2, [a |-> a1, d |-> d1])
        a3 == IF r <= pk
              THEN [in.a EXCEPT
                       ![s2, k] = FDiv(FSub(R(0), in.a[s1, k - 1]),
                                       ndu[pk + 1, r])]
              ELSE in.a
        d3 == IF r <= pk THEN FAdd(in.d, FMul(a3[s2, k], ndu[r, pk])) ELSE in.d
    IN  [a |-> a3, ders |-> [t.ders EXCEPT ![r, k] = d3], s1 |-> s2, s2 |-> s1]

\* The correction factor of derivative order k: degree at k = 1, multiplied
\* by degree - k after each order.
RECURSIVE basis_function_ders_factor(_, _)
basis_function_ders_factor(degree, k) ==
    IF k = 1 THEN degree
    ELSE basis_function_ders_factor(degree, k - 1) * (degree - (k - 1))

\* basis_function_ders(knot_span, knot, degree, knot_vector, deriv_order),
\* for deriv_order <= degree: ders[j, k] is derivative k of basis function
\* knot_span - degree + j.
basis_function_ders(knot_span, knot, degree, knot_vector, deriv_order) ==
    LET ndu   == basis_function_ders_ndu(knot_span, knot, degree, knot_vector)
        ders0 == [j \in 0..degree, k \in 0..deriv_order |->
                     IF k = 0 THEN ndu[j, degree] ELSE R(0)]
        last  == For(LAMBDA r, s :
                        For(LAMBDA k, t :
                                basis_function_ders_kth(ndu, degree, r, k, t),
                            1, deriv_order,
                            [a    |-> [s.a EXCEPT ![0, 0] = R(1)],
                             ders |-> s.ders, s1 |-> 0, s2 |-> 1]),
                     0, degree,
                     [a |-> Ones2(2, degree + 1), ders |-> ders0,
                      s1 |-> 0, s2 |-> 1])
    IN  [j \in 0..degree, k \in 0..deriv_order |->
            IF k = 0 THEN last.ders[j, k]
            ELSE FMul(last.ders[j, k],
                      R(basis_function_ders_factor(degree, k)))]

\* knot_vector[i] <= knot < knot_vector[i + 1], the test that sets a zero
\* degree basis function to one.
zero_degree_support(knot_vector, i, knot) ==
    RLe(At(knot_vector, i), knot) /\ RLt(knot, At(knot_vector, i + 1))

one_basis_column_saved_right(N, keep, degree, knot_vector, knot_span, knot, k) ==
    LET saved0 ==
            IF N[0] # R(0)
            THEN FDiv(FMul(FSub(knot, At(knot_vector, knot_span)), N[0]),
                      FSub(At(knot_vector, knot_span + k),
                           At(knot_vector, knot_span)))
            ELSE R(0)
    IN  For(LAMBDA j, t :
                LET Uleft  == At(knot_vector, knot_span + j + 1)
                    Uright == At(knot_vector, knot_span + j + k + 1)
                    temp   == FDiv(N[j + 1], FSub(Uright, Uleft))
                IN  IF N[j + 1] = R(0)
                    THEN [N |-> [t.N EXCEPT ![j] = t.saved], saved |-> R(0)]
                    ELSE [N |-> [t.N EXCEPT
                                    ![j] = FAdd(t.saved,
                                               FMul(FSub(Uright, knot), temp))],
                          saved |-> FMul(FSub(Uright, knot), temp)],
            0, degree - k, [N |-> keep, saved |-> saved0]).N

\* The table step one_basis_function and one_basis_function_ders share:
\* the pass over j in range(0, degree - k + 1) for one k, on the column N
\* of the previous k; result is the new column (entries above degree - k
\* keep the value given in keep).
one_basis_column(N, keep, degree, knot_vector, knot_span, knot, k) ==
    LET saved0 ==
            IF N[0] # R(0)
            THEN FDiv(FMul(FSub(knot, At(knot_vector, knot_span)), N[0]),
                      FSub(At(knot_vector, knot_span + k),
                           At(knot_vector, knot_span)))
            ELSE R(0)
    IN  For(LAMBDA j, t :
                LET Uleft  == At(knot_vector, knot_span + j + 1)
                    Uright == At(knot_vector, knot_span + j + k + 1)
                    temp   == FDiv(N[j + 1], FSub(Uright, Uleft))
                IN  IF N[j + 1] = R(0)
                    THEN [N |-> [t.N EXCEPT ![j] = t.saved], saved |-> R(0)]
                    ELSE [N |-> [t.N EXCEPT
                                    ![j] = FAdd(t.saved,
                                               FMul(FSub(Uright, knot), temp))],
                          saved |-> FMul(FSub(knot, Uleft), temp)],
            0, degree - k, [N |-> keep, saved |-> saved0]).N

\* one_basis_function after its special cases: the support test and the
\* triangular table.
one_basis_function_table(degree, knot_vector, knot_span, knot) ==
    IF \/ RLt(knot, At(knot_vector, knot_span))
       \/ RLt(At(knot_vector, knot_span + degree + 1), knot)
    THEN R(0)
    ELSE For(LAMBDA k, N :
                 one_basis_column(N, N, degree, knot_vector, knot_span, knot, k),
             1, degree,
             [j \in 0..(knot_span + degree) |->
                 IF j <= degree /\ zero_degree_support(knot_vector,
                                                       knot_span + j, knot)
                 THEN R(1) ELSE R(0)])[0]

\* one_basis_function(degree, knot_vector, knot_span, knot).  The table is
\* updated in place: N[j] of pass k is computed from N[j + 1] of pass k - 1,
\* which pass k has not yet overwritten.
one_basis_function(degree, knot_vector, knot_span, knot) ==
    IF \/ knot_span = 0 /\ knot = At(knot_vector, 0)
       \/ /\ knot_span = Len(knot_vector) - degree - 2
          /\ knot = At(knot_vector, Len(knot_vector) - 1)
    THEN R(1)
    ELSE one_basis_function_table(degree, knot_vector, knot_span,
                                            knot)

\* one_basis_function_ders, "Fill the rest of the table": column k of N for
\* every k, each a zero column filled from the column before it.
one_basis_function_ders_table(degree, knot_vector, knot_span, knot) ==
    LET col[k \in 0..degree] ==
            IF k = 0
            THEN [j \in 0..degree |->
                     IF zero_degree_support(knot_vector, knot_span + j, knot)
                     THEN R(1) ELSE R(0)]
            ELSE one_basis_column(col[k - 1], [j \in 0..degree |-> R(0)],
                                  degree, knot_vector, knot_span, knot, k)
    IN  col

\* one_basis_function_ders, the pass jj of derivative order k over the
\* buffer ND.
one_basis_function_ders_pass(ND, degree, knot_vector, knot_span, k, jj) ==
    LET saved0 ==
            IF ND[0] # R(0)
            THEN FDiv(ND[0],
                      FSub(At(knot_vector, knot_span + degree - k + jj),
                           At(knot_vector, knot_span)))
            ELSE R(0)
    IN  For(LAMBDA j, t :
                LET Uleft  == At(knot_vector, knot_span + j + 1)
                    Uright == At(knot_vector,
                                 knot_span + j + degree - k + jj + 1)
                    temp   == FDiv(t.ND[j + 1], FSub(Uright, Uleft))
                IN  IF t.ND[j + 1] = R(0)
                    THEN [ND |-> [t.ND EXCEPT
                                     ![j] = FMul(R(degree - k + jj), t.saved)],
                          saved |-> R(0)]
                    ELSE [ND |-> [t.ND EXCEPT
                                     ![j] = FMul(R(degree - k + jj),
                                                 FSub(t.saved, temp))],
                          saved |-> temp],
            0, k - jj, [ND |-> ND, saved |-> saved0]).ND

\* one_basis_function_ders(degree, knot_vector, knot_span, knot,
\* deriv_order), for deriv_order <= degree.
one_basis_function_ders(degree, knot_vector, knot_span, knot, deriv_order) ==
    IF \/ RLt(knot, At(knot_vector, knot_span))
       \/ RLe(At(knot_vector, knot_span + degree + 1), knot)
    THEN [k \in 0..deriv_order |-> R(0)]
    ELSE LET N == one_basis_function_ders_table(degree, knot_vector,
                                                knot_span, knot)
         IN  For(LAMBDA k, s :
                     LET grabbed == [j \in 0..deriv_order |->
                                        IF j <= k THEN N[degree - k][j]
                                        ELSE s.ND[j]]
                         ND == For(LAMBDA jj, nd :
                                       one_basis_function_ders_pass(nd, degree,
                                           knot_vector, knot_span, k, jj),
                                   1, k, grabbed)
                     IN  [ND |-> ND, ders |-> [s.ders EXCEPT ![k] = ND[0]]],
                 1, deriv_order,
                 [ND   |-> [j \in 0..deriv_order |-> R(0)],
                  ders |-> [k \in 0..deriv_order |->
                               IF k = 0 THEN N[degree][0] ELSE R(0)]]).ders

(***************************************************************************)
(* model/spline.py: BSplineSurface.                                        *)
(*                                                                         *)
(* `call` records the last setter call: its name, the exception it raised  *)
(* ("none" when it returned normally) and, for a knot vector setter, what  *)
(* its call of _check_knot_vector returned.                                *)
(***************************************************************************)
DegreeInputs == 0..MaxDegree

NumInputs == 1..MaxNumCtrlpts

\* Arrays offered as control points; only the rank is read by the setter.
CtrlptArrays == {[ndim |-> d] : d \in 1..3}

\* Knot vectors offered to the setters: the uniform clamped vector of every
\* degree and admissible count, and malformed variants of it: reversed
\* (decreasing), unclamped (evenly spaced), constant, and empty.
Reverse(s) == [i \in 1..Len(s) |-> s[Len(s) + 1 - i]]

KnotVectorInputs ==
    LET uniform == UNION {{generate_uniform(p, n) :
                                n \in (p + 1)..MaxNumCtrlpts} :
                            p \in 1..MaxDegree}
    IN  uniform \cup {Reverse(kv) : kv \in uniform}
                \cup {linspace01(Len(kv)) : kv \in uniform}
                \cup {[i \in 1..Len(kv) |-> R(0)] : kv \in uniform}
                \cup {<<>>}

Returned(op) == [op |-> op, raised |-> "none", check |-> None]

Raised(op, exc) == [op |-> op, raised |-> exc, check |-> None]

\* A knot vector setter that returned normally, with the value its call of
\* _check_knot_vector returned.
Checked(op, check) == [op |-> op, raised |-> "none", check |-> Some(check)]

\* __init__(**kwargs): the degrees come from the keyword arguments as given.
SurfaceInit ==
    /\ degree_u \in {None} \cup {Some(d) : d \in DegreeInputs}
    /\ degree_v \in {None} \cup {Some(d) : d \in DegreeInputs}
    /\ num_control_points_u = None
    /\ num_control_points_v = None
    /\ control_points = None
    /\ knot_vector_u = None
    /\ knot_vector_v = None
    /\ call = Returned("__init__")

set_degree_u(degree) ==
    IF degree < 1
    THEN /\ call' = Raised("degree_u", "ValueError")
         /\ UNCHANGED surface
    ELSE /\ degree_u' = Some(degree)
         /\ call' = Returned("degree_u")
         /\ UNCHANGED <<degree_v, num_control_points_u, num_control_points_v,
                        control_points, knot_vector_u, knot_vector_v>>

set_degree_v(degree) ==
    IF degree < 1
    THEN /\ call' = Raised("degree_v", "ValueError")
         /\ UNCHANGED surface
    ELSE /\ degree_v' = Some(degree)
         /\ call' = Returned("degree_v")
         /\ UNCHANGED <<degree_u, num_control_points_u, num_control_points_v,
                        control_points, knot_vector_u, knot_vector_v>>

\* `num < self.degree_u + 1` with degree_u None is None + 1: TypeError.
set_num_ctrlpts_u(num) ==
    IF degree_u = None
    THEN /\ call' = Raised("num_ctrlpts_u", "TypeError")
         /\ UNCHANGED surface
    ELSE IF num < Val(degree_u) + 1
    THEN /\ call' = Raised("num_ctrlpts_u", "ValueError")
         /\ UNCHANGED surface
    ELSE /\ num_control_points_u' = Some(num)
         /\ call' = Returned("num_ctrlpts_u")
         /\ UNCHANGED <<degree_u, degree_v, num_control_points_v,
                        control_points, knot_vector_u, knot_vector_v>>

set_num_ctrlpts_v(num) ==
    IF degree_v = None
    THEN /\ call' = Raised("num_ctrlpts_v", "TypeError")
         /\ UNCHANGED surface
    ELSE IF num < Val(degree_v) + 1
    THEN /\ call' = Raised("num_ctrlpts_v", "ValueError")
         /\ UNCHANGED surface
    ELSE /\ num_control_points_v' = Some(num)
         /\ call' = Returned("num_ctrlpts_v")
         /\ UNCHANGED <<degree_u, degree_v, num_control_points_u,
                        control_points, knot_vector_u, knot_vector_v>>

set_control_points_unguarded_v(ctrlpt_array) ==
    IF degree_u = None \/ ctrlpt_array.ndim # 2
    THEN /\ call' = Raised("control_points", "ValueError")
         /\ UNCHANGED surface
    ELSE /\ control_points' = Some(ctrlpt_array)
         /\ call' = Returned("control_points")
         /\ UNCHANGED <<degree_u, degree_v, num_control_points_u,
                        num_control_points_v, knot_vector_u, knot_vector_v>>

set_control_points(ctrlpt_array) ==
    IF degree_u = None
    THEN /\ call' = Raised("control_points", "ValueError")
         /\ UNCHANGED surface
    ELSE IF degree_v = None
    THEN /\ call' = Raised("control_points", "ValueError")
         /\ UNCHANGED surface
    ELSE IF ctrlpt_array.ndim # 2
    THEN /\ call' = Raised("control_points", "ValueError")
         /\ UNCHANGED surface
    ELSE /\ control_points' = Some(ctrlpt_array)
         /\ call' = Returned("control_points")
         /\ UNCHANGED <<degree_u, degree_v, num_control_points_u,
                        num_control_points_v, knot_vector_u, knot_vector_v>>

\* check_knot_vector tabulated over the degrees, counts and vectors of the
\* model, so that it is evaluated once for each of them.
CheckTable ==
    [p \in DegreeInputs, n \in NumInputs |->
        {kv \in KnotVectorInputs :
            ~check_knot_vector_raises(kv) /\ check_knot_vector(p, kv, n)}]

\* _check_knot_vector(kv, direction): check_knot_vector with the surface's
\* own degree and control-point count of that direction.
surface_check_knot_vector(kv, direction) ==
    IF direction = "u"
    THEN kv \in CheckTable[Val(degree_u), Val(num_control_points_u)]
    ELSE kv \in CheckTable[Val(degree_v), Val(num_control_points_v)]

set_knot_vector_u_unguarded_ctrlpts(kv) ==
    IF degree_u = None \/ num_control_points_u = None
          \/ check_knot_vector_raises(kv)
    THEN /\ call' = Raised("knot_vector_u", "ValueError")
         /\ UNCHANGED surface
    ELSE /\ knot_vector_u' = IF surface_check_knot_vector(kv, "u")
                             THEN Some(kv) ELSE knot_vector_u
         /\ call' = Checked("knot_vector_u",
                            surface_check_knot_vector(kv, "u"))
         /\ UNCHANGED <<degree_u, degree_v, num_control_points_u,
                        num_control_points_v, control_points, knot_vector_v>>

\* A vector that fails the check is not stored and nothing is raised: the
\* setter returns normally.
set_knot_vector_u(kv) ==
    IF degree_u = None
    THEN /\ call' = Raised("knot_vector_u", "ValueError")
         /\ UNCHANGED surface
    ELSE IF control_points = None
    THEN /\ call' = Raised("knot_vector_u", "ValueError")
         /\ UNCHANGED surface
    ELSE IF num_control_points_u = None
    THEN /\ call' = Raised("knot_vector_u", "ValueError")
         /\ UNCHANGED surface
    ELSE IF check_knot_vector_raises(kv)
    THEN /\ call' = Raised("knot_vector_u", "ValueError")
         /\ UNCHANGED surface
    ELSE /\ knot_vector_u' = IF surface_check_knot_vector(kv, "u")
                             THEN Some(kv) ELSE knot_vector_u
         /\ call' = Checked("knot_vector_u",
                            surface_check_knot_vector(kv, "u"))
         /\ UNCHANGED <<degree_u, degree_v, num_control_points_u,
                        num_control_points_v, control_points, knot_vector_v>>

set_knot_vector_v(kv) ==
    IF degree_v = None
    THEN /\ call' = Raised("knot_vector_v", "ValueError")
         /\ UNCHANGED surface
    ELSE IF control_points = None
    THEN /\ call' = Raised("knot_vector_v", "ValueError")
         /\ UNCHANGED surface
    ELSE IF num_control_points_v = None
    THEN /\ call' = Raised("knot_vector_v", "ValueError")
         /\ UNCHANGED surface
    ELSE IF check_knot_vector_raises(kv)
    THEN /\ call' = Raised("knot_vector_v", "ValueError")
         /\ UNCHANGED surface
    ELSE /\ knot_vector_v' = IF surface_check_knot_vector(kv, "v")
                             THEN Some(kv) ELSE knot_vector_v
         /\ call' = Checked("knot_vector_v",
                            surface_check_knot_vector(kv, "v"))
         /\ UNCHANGED <<degree_u, degree_v, num_control_points_u,
                        num_control_points_v, control_points, knot_vector_u>>

SetDegreeU == \E d \in DegreeInputs : set_degree_u(d)

SetDegreeV == \E d \in DegreeInputs : set_degree_v(d)

SetNumCtrlptsU == \E n \in NumInputs : set_num_ctrlpts_u(n)

SetNumCtrlptsV == \E n \in NumInputs : set_num_ctrlpts_v(n)

SetControlPoints == \E a \in CtrlptArrays : set_control_points(a)

SetKnotVectorU == \E kv \in KnotVectorInputs : set_knot_vector_u(kv)

SetKnotVectorV == \E kv \in KnotVectorInputs : set_knot_vector_v(kv)

Idle == [pc |-> "idle"]

Init ==
    /\ SurfaceInit
    /\ fs = Idle
    /\ gu = Idle
    /\ bf = Idle
    /\ interpolator = Idle
    /\ zn = Idle

Next ==
    \/ SetDegreeU /\ UNCHANGED <<fs, gu, bf, interpolator, zn>>
    \/ SetDegreeV /\ UNCHANGED <<fs, gu, bf, interpolator, zn>>
    \/ SetNumCtrlptsU /\ UNCHANGED <<fs, gu, bf, interpolator, zn>>
    \/ SetNumCtrlptsV /\ UNCHANGED <<fs, gu, bf, interpolator, zn>>
    \/ SetControlPoints /\ UNCHANGED <<fs, gu, bf, interpolator, zn>>
    \/ SetKnotVectorU /\ UNCHANGED <<fs, gu, bf, interpolator, zn>>
    \/ SetKnotVectorV /\ UNCHANGED <<fs, gu, bf, interpolator, zn>>

Spec == Init /\ [][Next]_vars

(***************************************************************************)
(* util/spline_knot.py called on its own: find_span, one loop iteration    *)
(* per step, and generate_uniform followed by check_knot_vector.           *)
(***************************************************************************)
\* A surface on which nothing is set; the utilities do not read it.
NoSurface ==
    /\ degree_u = None
    /\ degree_v = None
    /\ num_control_points_u = None
    /\ num_control_points_v = None
    /\ control_points = None
    /\ knot_vector_u = None
    /\ knot_vector_v = None
    /\ call = Returned("__init__")

\* Knot values of the find_span calls: small ones, and large ones that lie
\* within find_span's relative tolerance of each other.
FindSpanKnots ==
    {R(0), Rat(1, 2), R(1), R(LargeKnot - 2), R(LargeKnot - 1), R(LargeKnot)}

NonDecreasing(s) == \A i \in 1..(Len(s) - 1) : RLe(s[i], s[i + 1])

\* The clamped non-decreasing vectors over K for a degree and a count:
\* degree + 1 copies of the first knot, the interior knots, degree + 1
\* copies of the last knot.
ClampedVectors(K, degree, num_ctrlpts) ==
    {kv \in {[i \in 1..(degree + 1) |-> a] \o interior
                \o [i \in 1..(degree + 1) |-> b] :
             a \in K, b \in K,
             interior \in SeqsOfLen(K, num_ctrlpts - degree - 1)} :
        NonDecreasing(kv)}

\* Clamped vectors over FindSpanKnots: every degree, every admissible count
\* and every knot value of FindSpanKnots, inside the vector's domain or not.
ClampedSpanInputs ==
    UNION {UNION {
        {[num_ctrlpts |-> num_ctrlpts, degree |-> degree,
          knot |-> knot, knot_vector |-> knot_vector] :
            knot \in FindSpanKnots,
            knot_vector \in ClampedVectors(FindSpanKnots, degree, num_ctrlpts)} :
        num_ctrlpts \in (degree + 1)..MaxNumCtrlpts} :
        degree \in 1..MaxDegree}

\* The entries of s as a set.
Range(s) == {s[i] : i \in 1..Len(s)}

\* Uniform clamped vectors of up to MaxSpanCtrlpts control points, searched
\* for each of their own knot values and for the midpoint of each span.
UniformSpanInputs ==
    UNION {UNION {
        LET knot_vector == generate_uniform(degree, num_ctrlpts)
        IN  {[num_ctrlpts |-> num_ctrlpts, degree |-> degree,
              knot |-> knot, knot_vector |-> knot_vector] :
                knot \in Range(knot_vector) \cup
                         {RDiv(RAdd(knot_vector[i], knot_vector[i + 1]), R(2)) :
                             i \in 1..(Len(knot_vector) - 1)}} :
        num_ctrlpts \in (degree + 1)..MaxSpanCtrlpts} :
        degree \in 1..MaxDegree}

\* The arguments of the find_span calls.
FindSpanInputs == ClampedSpanInputs \cup UniformSpanInputs

find_span_call ==
    /\ fs.pc = "call"
    /\ IF find_span_edge_case(fs.args.num_ctrlpts, fs.args.knot,
                              fs.args.knot_vector)
       THEN fs' = [fs EXCEPT !.pc = "done",
                             !.ret = find_span_edge_result(fs.args.num_ctrlpts)]
       ELSE fs' = [fs EXCEPT !.pc = "loop",
                             !.low = fs.args.degree,
                             !.high = fs.args.num_ctrlpts,
                             !.mid = find_span_first_mid(fs.args.degree,
                                                         fs.args.num_ctrlpts)]

find_span_iterate ==
    /\ fs.pc = "loop"
    /\ find_span_loop_condition(fs.args.knot, fs.args.knot_vector, fs.mid)
    /\ LET b == find_span_loop_body(fs.args.knot, fs.args.knot_vector,
                                    fs.low, fs.high, fs.mid)
       IN  fs' = [fs EXCEPT !.low = b.low, !.high = b.high, !.mid = b.mid]

find_span_return ==
    /\ fs.pc = "loop"
    /\ ~find_span_loop_condition(fs.args.knot, fs.args.knot_vector, fs.mid)
    /\ fs' = [fs EXCEPT !.pc = "done", !.ret = fs.mid]

\* generate_uniform(degree, num_ctrlpts), then check_knot_vector on its
\* result.  np.linspace raises ValueError for a negative number of samples.
generate_uniform_call ==
    /\ gu.pc = "call"
    /\ IF gu.num_ctrlpts + gu.degree + 1 - 2 * gu.degree < 0
       THEN gu' = [gu EXCEPT !.pc = "raised"]
       ELSE LET knot_vector == generate_uniform(gu.degree, gu.num_ctrlpts)
            IN  gu' = [gu EXCEPT !.pc = "done",
                                 !.knot_vector = knot_vector,
                                 !.check = check_knot_vector(gu.degree,
                                              knot_vector, gu.num_ctrlpts)]

\* One call per behaviour, its arguments drawn at the start.
FindSpanStart ==
    {[pc |-> "call", args |-> args, low |-> 0, high |-> 0, mid |-> 0,
      ret |-> 0] : args \in FindSpanInputs}

GenerateUniformStart ==
    {[pc |-> "call", degree |-> degree, num_ctrlpts |-> num_ctrlpts,
      knot_vector |-> <<>>, check |-> FALSE] :
        degree \in 1..MaxDegree, num_ctrlpts \in 1..MaxNumCtrlpts}

InitKnot ==
    /\ NoSurface
    /\ bf = Idle
    /\ interpolator = Idle
    /\ zn = Idle
    /\ \/ fs \in FindSpanStart /\ gu = Idle
       \/ fs = Idle /\ gu \in GenerateUniformStart

NextKnot ==
    \/ find_span_call /\ UNCHANGED <<surface, call, gu, bf, interpolator, zn>>
    \/ find_span_iterate /\ UNCHANGED <<surface, call, gu, bf, interpolator, zn>>
    \/ find_span_return /\ UNCHANGED <<surface, call, gu, bf, interpolator, zn>>
    \/ generate_uniform_call /\ UNCHANGED <<surface, call, fs, bf, interpolator, zn>>

SpecKnot == InitKnot /\ [][NextKnot]_vars

(***************************************************************************)
(* util/spline_basis.py called on its own.                                 *)
(***************************************************************************)
BasisKnots == {R(0), R(1), R(2)}

BasisKnotValues == BasisKnots \cup {Rat(1, 2), Rat(3, 2)}

\* Clamped vectors over BasisKnots: every span index of the domain
\* (zero-width spans included), every knot value, inside the span or not,
\* and every derivative order up to the degree.
ClampedBasisInputs ==
    UNION {UNION {
        {[knot_span |-> knot_span, knot |-> knot, degree |-> degree,
          knot_vector |-> knot_vector, num_ctrlpts |-> num_ctrlpts,
          deriv_order |-> deriv_order] :
            knot_span \in degree..(num_ctrlpts - 1),
            knot \in BasisKnotValues,
            knot_vector \in ClampedVectors(BasisKnots, degree, num_ctrlpts),
            deriv_order \in 0..degree} :
        num_ctrlpts \in (degree + 1)..MaxNumCtrlpts} :
        degree \in 1..MaxDegree}

\* The find_span calls on uniform vectors, each with the span it returns and
\* every derivative order up to the degree.
UniformBasisInputs ==
    {[knot_span |-> find_span(a.num_ctrlpts, a.degree, a.knot, a.knot_vector),
      knot |-> a.knot, degree |-> a.degree, knot_vector |-> a.knot_vector,
      num_ctrlpts |-> a.num_ctrlpts, deriv_order |-> deriv_order] :
        a \in UniformSpanInputs, deriv_order \in 0..MaxDegree}

\* The arguments of the basis function calls.
BasisInputs ==
    ClampedBasisInputs \cup
    {a \in UniformBasisInputs : a.deriv_order <= a.degree}

\* The indices of the basis functions that do not vanish on knot_span.
Window(args) == (args.knot_span - args.degree)..args.knot_span

\* The four evaluators are called in turn on the same arguments; the single
\* function evaluators once for each basis function of the window.
basis_functions_call ==
    /\ bf.pc = "call"
    /\ bf' = [bf EXCEPT !.pc = "done",
                        !.N = basis_functions(bf.args.knot_span, bf.args.knot,
                                  bf.args.degree, bf.args.knot_vector)]

basis_function_ders_call ==
    /\ bf.pc = "done"
    /\ bf' = [bf EXCEPT !.pc = "ders",
                        !.ders = basis_function_ders(bf.args.knot_span,
                                     bf.args.knot, bf.args.degree,
                                     bf.args.knot_vector, bf.args.deriv_order)]

one_basis_function_call ==
    /\ bf.pc = "ders"
    /\ bf' = [bf EXCEPT !.pc = "one",
                        !.one = [i \in Window(bf.args) |->
                                    one_basis_function(bf.args.degree,
                                        bf.args.knot_vector, i, bf.args.knot)]]

one_basis_function_ders_call ==
    /\ bf.pc = "one"
    /\ bf' = [bf EXCEPT !.pc = "one_ders",
                        !.one_ders = [i \in Window(bf.args) |->
                                         one_basis_function_ders(bf.args.degree,
                                             bf.args.knot_vector, i,
                                             bf.args.knot,
                                             bf.args.deriv_order)]]

InitBasis ==
    /\ NoSurface
    /\ fs = Idle
    /\ gu = Idle
    /\ interpolator = Idle
    /\ zn = Idle
    /\ bf \in {[pc |-> "call", args |-> args, N |-> <<>>, ders |-> <<>>,
                one |-> <<>>, one_ders |-> <<>>] : args \in BasisInputs}

NextBasis ==
    \/ basis_functions_call /\ UNCHANGED <<surface, call, fs, gu, interpolator, zn>>
    \/ basis_function_ders_call /\ UNCHANGED <<surface, call, fs, gu, interpolator, zn>>
    \/ one_basis_function_call /\ UNCHANGED <<surface, call, fs, gu, interpolator, zn>>
    \/ one_basis_function_ders_call /\ UNCHANGED <<surface, call, fs, gu, interpolator, zn>>

SpecBasis == InitBasis /\ [][NextBasis]_vars

(***************************************************************************)
(* model/spline.py: evaluation of a fully constructed surface.  The        *)
(* evaluators read the surface and leave it as it is; `call` records the   *)
(* one evaluation of a behaviour: its arguments, whether it returns at     *)
(* all, the exception it raised and the value it returned.                 *)
(***************************************************************************)
\* util/spline_knot.py validate_knot: 0.0 <= knot <= 1.0
validate_knot(knot) == RLe(R(0), knot) /\ RLe(knot, R(1))

\* Whether the loop of find_span ends.  The loop is deterministic in
\* (low, high, mid): it runs forever exactly when an iteration whose
\* condition holds leaves the three unchanged.
RECURSIVE find_span_search_ends(_, _, _, _, _)
find_span_search_ends(knot, knot_vector, low, high, mid) ==
    IF ~find_span_loop_condition(knot, knot_vector, mid) THEN TRUE
    ELSE LET b == find_span_loop_body(knot, knot_vector, low, high, mid)
         IN  IF b.low = low /\ b.high = high /\ b.mid = mid THEN FALSE
             ELSE find_span_search_ends(knot, knot_vector, b.low, b.high, b.mid)

find_span_returns(num_ctrlpts, degree, knot, knot_vector) ==
    \/ find_span_edge_case(num_ctrlpts, knot, knot_vector)
    \/ find_span_search_ends(knot, knot_vector, degree, num_ctrlpts,
                             find_span_first_mid(degree, num_ctrlpts))

reshape_first_column(column, num_v, i, j) == At(column, i * num_v)

\* np.reshape(column, (num_u, num_v))[i, j] of a flat column, row-major.
reshape(column, num_v, i, j) == At(column, i * num_v + j)

\* u_ders @ active @ v_ders on the window of control points that starts at
\* (u_start, v_start): the sum over the window of
\* u_ders[a] * column[u_start + a, v_start + b] * v_ders[b].
RECURSIVE window_product(_, _, _, _, _, _, _, _, _)
window_product(u_ders, v_ders, column, num_v, u_start, v_start, a, b, len_v) ==
    IF a < 0 THEN R(0)
    ELSE IF b < 0
         THEN window_product(u_ders, v_ders, column, num_v, u_start, v_start,
                             a - 1, len_v, len_v)
         ELSE FAdd(FMul(FMul(u_ders[a],
                             reshape(column, num_v, u_start + a, v_start + b)),
                        v_ders[b]),
                   window_product(u_ders, v_ders, column, num_v, u_start,
                                  v_start, a, b - 1, len_v))

\* The spans of u and v on the surface as it is.
surface_span_u(u) ==
    find_span(Val(num_control_points_u), Val(degree_u), u, Val(knot_vector_u))

surface_span_v(v) ==
    find_span(Val(num_control_points_v), Val(degree_v), v, Val(knot_vector_v))

surface_find_span_returns(u, v) ==
    /\ find_span_returns(Val(num_control_points_u), Val(degree_u), u,
                         Val(knot_vector_u))
    /\ find_span_returns(Val(num_control_points_v), Val(degree_v), v,
                         Val(knot_vector_v))

\* The point u_ders @ x_active @ v_ders, u_ders @ y_active @ v_ders.
surface_point(u_ders, v_ders, u_span, v_span) ==
    LET u_start == u_span - Val(degree_u)
        v_start == v_span - Val(degree_v)
        num_v   == Val(num_control_points_v)
    IN  <<window_product(u_ders, v_ders, Val(control_points).x, num_v,
                         u_start, v_start,
                         Val(degree_u), Val(degree_v), Val(degree_v)),
          window_product(u_ders, v_ders, Val(control_points).y, num_v,
                         u_start, v_start,
                         Val(degree_u), Val(degree_v), Val(degree_v))>>

\* The outcome of an evaluation: it raised, it never returns (a span search
\* that does not end), or it returned ret.
EvalRaised(exc) == [raised |-> exc, returns |-> TRUE, ret |-> None]

EvalHangs == [raised |-> "none", returns |-> FALSE, ret |-> None]

EvalReturned(ret) == [raised |-> "none", returns |-> TRUE, ret |-> Some(ret)]

\* single_point(u, v)
single_point(u, v) ==
    IF ~validate_knot(u) THEN EvalRaised("ValueError")
    ELSE IF ~validate_knot(v) THEN EvalRaised("ValueError")
    ELSE IF ~surface_find_span_returns(u, v) THEN EvalHangs
    ELSE LET u_span == surface_span_u(u)
             v_span == surface_span_v(v)
             basis_funs_u == basis_functions(u_span, u, Val(degree_u),
                                             Val(knot_vector_u))
             basis_funs_v == basis_functions(v_span, v, Val(degree_v),
                                             Val(knot_vector_v))
         IN  EvalReturned(surface_point(basis_funs_u, basis_funs_v,
                                        u_span, v_span))

\* np.isclose(np.linalg.norm(val), 0.0): norm <= atol.  The components of
\* the model are rationals with denominators far below AtolInv, for which a
\* norm of at most atol is a norm of zero.
norm_isclose_zero(val) == val[1] = R(0) /\ val[2] = R(0)

\* Row `index` of derivs: the derivative of order u_row in u and v_row in
\* v; unit tells that the row was divided by its norm.
derivatives_row(basis_funs_u_ders, basis_funs_v_ders, u_span, v_span, u_row, v_row, index, normalize_flag) ==
    LET u_ders == [a \in 0..Val(degree_u) |-> basis_funs_u_ders[a, u_row]]
        v_ders == [b \in 0..Val(degree_v) |-> basis_funs_v_ders[b, v_row]]
        val    == surface_point(u_ders, v_ders, u_span, v_span)
    IN  [val  |-> val,
         unit |-> normalize_flag /\ ~norm_isclose_zero(val) /\ index # 0]

derivatives_v_outer(u, v, order_u, order_v, normalize_flag) ==
    IF ~validate_knot(u) THEN EvalRaised("ValueError")
    ELSE IF ~validate_knot(v) THEN EvalRaised("ValueError")
    ELSE IF ~surface_find_span_returns(u, v) THEN EvalHangs
    ELSE LET max_order_u == IF order_u < Val(degree_u)
                            THEN order_u ELSE Val(degree_u)
             max_order_v == IF order_v < Val(degree_v)
                            THEN order_v ELSE Val(degree_v)
             u_span == surface_span_u(u)
             v_span == surface_span_v(v)
             basis_funs_u_ders ==
                 basis_function_ders(u_span, u, Val(degree_u),
                                     Val(knot_vector_u), max_order_u)
             basis_funs_v_ders ==
                 basis_function_ders(v_span, v, Val(degree_v),
                                     Val(knot_vector_v), max_order_v)
         IN  EvalReturned(
               [n \in 1..((max_order_u + 1) * (max_order_v + 1)) |->
                   LET index == n - 1
                       u_row == index % (max_order_u + 1)
                       v_row == index \div (max_order_u + 1)
                   IN  derivatives_row(basis_funs_u_ders, basis_funs_v_ders,
                                       u_span, v_span, u_row, v_row, index,
                                       normalize_flag)])

\* derivatives(u, v, order_u, order_v, normalize), the last argument under
\* the name normalize_flag: index counts the passes
\* of the loop over v_row inside the loop over u_row.
derivatives(u, v, order_u, order_v, normalize_flag) ==
    IF ~validate_knot(u) THEN EvalRaised("ValueError")
    ELSE IF ~validate_knot(v) THEN EvalRaised("ValueError")
    ELSE IF ~surface_find_span_returns(u, v) THEN EvalHangs
    ELSE LET max_order_u == IF order_u < Val(degree_u)
                            THEN order_u ELSE Val(degree_u)
             max_order_v == IF order_v < Val(degree_v)
                            THEN order_v ELSE Val(degree_v)
             u_span == surface_span_u(u)
             v_span == surface_span_v(v)
             basis_funs_u_ders ==
                 basis_function_ders(u_span, u, Val(degree_u),
                                     Val(knot_vector_u), max_order_u)
             basis_funs_v_ders ==
                 basis_function_ders(v_span, v, Val(degree_v),
                                     Val(knot_vector_v), max_order_v)
         IN  EvalReturned(
               [n \in 1..((max_order_u + 1) * (max_order_v + 1)) |->
                   LET index == n - 1
                       u_row == index \div (max_order_v + 1)
                       v_row == index % (max_order_v + 1)
                   IN  derivatives_row(basis_funs_u_ders, basis_funs_v_ders,
                                       u_span, v_span, u_row, v_row, index,
                                       normalize_flag)])

\* The list comprehension of points: single_point on each row in turn; the
\* first row that raises (or never returns) ends the whole call.
RECURSIVE points_values(_, _, _)
points_values(rows, i, values) ==
    IF i > Len(rows) THEN EvalReturned(values)
    ELSE LET point == single_point(rows[i][1], rows[i][2])
         IN  IF point.raised # "none" \/ ~point.returns THEN point
             ELSE points_values(rows, i + 1, Append(values, Val(point.ret)))

\* points(knot_array)
points(knot_array) ==
    IF knot_array.ndim # 2 THEN EvalRaised("ValueError")
    ELSE points_values(knot_array.rows, 1, <<>>)

\* The control points of the test surface: point (i, j) of the grid is
\* (x, y) = (i, j), stored row-major in an array of num_u * num_v rows.
meshgrid(num_u, num_v) ==
    [ndim |-> 2,
     x |-> [n \in 1..(num_u * num_v) |-> R((n - 1) \div num_v)],
     y |-> [n \in 1..(num_u * num_v) |-> R((n - 1) % num_v)]]

\* The knot vectors stored on the evaluated surfaces, for a degree and a
\* count: among the uniform vector, the uniform vector shifted by one, and
\* the vectors whose interior knots all equal the first or the last knot,
\* those that check_knot_vector accepts.
EvalKnotVectors(degree, num_ctrlpts) ==
    LET uniform == generate_uniform(degree, num_ctrlpts)
        ends(a, b, c) == [i \in 1..(degree + 1) |-> a]
                            \o [i \in 1..(num_ctrlpts - degree - 1) |-> b]
                            \o [i \in 1..(degree + 1) |-> c]
    IN  {kv \in {uniform,
                 [i \in 1..Len(uniform) |-> RAdd(uniform[i], R(1))],
                 ends(R(0), R(0), R(1)),
                 ends(R(0), R(1), R(1))} :
            check_knot_vector(degree, kv, num_ctrlpts)}

\* Parameter values of the evaluations: the ends and the middle of [0, 1]
\* and values outside it.
EvalKnots == {Rat(-1, 2), R(0), Rat(1, 2), R(1), Rat(3, 2)}

\* Derivative orders asked for: none, and one above the first.
EvalOrders == {0, 2}

\* Arrays offered to points: a 1-D array, and the 2-D arrays of up to two
\* rows of parameters inside [0, 1] or not.
EvalKnotArrays ==
    LET rows == {<<Rat(1, 2), R(1)>>, <<Rat(3, 2), R(0)>>, <<R(0), Rat(-1, 2)>>}
    IN  {[ndim |-> 1, rows |-> <<>>]}
            \cup {[ndim |-> 2, rows |-> r] :
                    r \in SeqsOfLen(rows, 0) \cup SeqsOfLen(rows, 1)
                            \cup SeqsOfLen(rows, 2)}

\* The record of an evaluation in `call`.
Evaluated(op, args, outcome) ==
    [op |-> op, raised |-> outcome.raised, check |-> None, args |-> args,
     returns |-> outcome.returns, ret |-> outcome.ret]

\* A surface after a complete construction: every field set by its setter,
\* the last of them knot_vector_v.
InitEval ==
    /\ \E pu \in 1..MaxDegree, pv \in 1..MaxDegree :
          \E nu \in (pu + 1)..MaxNumCtrlpts, nv \in (pv + 1)..MaxNumCtrlpts :
             /\ degree_u = Some(pu)
             /\ degree_v = Some(pv)
             /\ num_control_points_u = Some(nu)
             /\ num_control_points_v = Some(nv)
             /\ control_points = Some(meshgrid(nu, nv))
             /\ knot_vector_u \in {Some(kv) : kv \in EvalKnotVectors(pu, nu)}
             /\ knot_vector_v \in {Some(kv) : kv \in EvalKnotVectors(pv, nv)}
    /\ call = Checked("knot_vector_v", TRUE)
    /\ fs = Idle
    /\ gu = Idle
    /\ bf = Idle
    /\ interpolator = Idle
    /\ zn = Idle

SinglePoint ==
    /\ call.op = "knot_vector_v"
    /\ \E u \in EvalKnots, v \in EvalKnots :
          call' = Evaluated("single_point", [u |-> u, v |-> v],
                            single_point(u, v))
    /\ UNCHANGED surface

Points ==
    /\ call.op = "knot_vector_v"
    /\ \E knot_array \in EvalKnotArrays :
          call' = Evaluated("points", [knot_array |-> knot_array],
                            points(knot_array))
    /\ UNCHANGED surface

Derivatives ==
    /\ call.op = "knot_vector_v"
    /\ \E u \in EvalKnots, v \in EvalKnots, order_u \in EvalOrders,
          order_v \in EvalOrders, normalize_flag \in BOOLEAN :
          call' = Evaluated("derivatives",
                            [u |-> u, v |-> v, order_u |-> order_u,
                             order_v |-> order_v,
                             normalize_flag |-> normalize_flag],
                            derivatives(u, v, order_u, order_v,
                                        normalize_flag))
    /\ UNCHANGED surface

NextEval ==
    \/ SinglePoint /\ UNCHANGED <<fs, gu, bf, interpolator, zn>>
    \/ Points /\ UNCHANGED <<fs, gu, bf, interpolator, zn>>
    \/ Derivatives /\ UNCHANGED <<fs, gu, bf, interpolator, zn>>

SpecEval == InitEval /\ [][NextEval]_vars

(***************************************************************************)
(* model/bicubic_image_interpolator.py.  An array is a record of its shape *)
(* and its elements, px[r, c] with 0-based r < h and c < w.  The pixels    *)
(* are integers, so the Sobel derivatives and the coefficients are too (C  *)
(* and D are integer matrices); only the evaluated point is fractional.    *)
(* The cache key f'row{ymin}col{xmin}' is the pair <<ymin, xmin>>: the     *)
(* formatting is injective in the two integers.                            *)
(***************************************************************************)
ImageShapes == {<<1, 1>>, <<2, 2>>, <<2, 3>>}

PixelValues == {0, 1}

ImagePoints == {R(-3), R(-1), R(0), Rat(1, 2), R(1), R(2)}

Images ==
    UNION {{[h |-> hw[1], w |-> hw[2], px |-> px] :
            px \in [(0..(hw[1] - 1)) \X (0..(hw[2] - 1)) -> PixelValues]} :
           hw \in ImageShapes}

\* scipy.ndimage.correlate1d with three weights centred on the element;
\* mode='constant': outside the array the filter reads cval = 0
correlate1d(a, weights, axis) ==
    LET constant_mode(r, c) ==
            IF r \in 0..(a.h - 1) /\ c \in 0..(a.w - 1) THEN a.px[r, c] ELSE 0
        tap(r, c, k) == IF axis = 0 THEN constant_mode(r + k, c)
                                    ELSE constant_mode(r, c + k)
    IN  [a EXCEPT !.px = [r \in 0..(a.h - 1), c \in 0..(a.w - 1) |->
                             weights[1] * tap(r, c, -1)
                             + weights[2] * tap(r, c, 0)
                             + weights[3] * tap(r, c, 1)]]

\* scipy.ndimage.sobel of a 2-D array: the derivative filter along axis,
\* then the smoothing filter along the other axis
sobel(a, axis) ==
    correlate1d(correlate1d(a, <<-1, 0, 1>>, axis), <<1, 2, 1>>, 1 - axis)

\* _compute_sobel
compute_sobel(self) ==
    [self EXCEPT !.dx = Some(sobel(self.image, 0)),
                 !.dy = Some(sobel(self.image, 1)),
                 !.dxy = Some(sobel(sobel(self.image, 1), 0))]

\* The indices slice(start, start + 2, 1) selects from an axis of the given
\* length: a negative bound counts from the end, and both are clipped.
slice(start, length) ==
    LET clip(i) == IF i < 0 THEN (IF i + length < 0 THEN 0 ELSE i + length)
                            ELSE (IF i > length THEN length ELSE i)
        first == clip(start)
        stop == clip(start + 2)
    IN  [k \in 1..(IF stop > first THEN stop - first ELSE 0) |-> first + k - 1]

\* np.flipud(a[col_slice, row_slice]) broadcast into a 2 x 2 block of F:
\* an axis of length one is repeated.  Undefined when a slice is empty.
flipud_block(a, col, row, i, j) ==
    LET rows == slice(col, a.h)
        cols == slice(row, a.w)
    IN  a.px[rows[IF Len(rows) = 2 THEN 2 - i ELSE 1],
             cols[IF Len(cols) = 2 THEN j + 1 ELSE 1]]

C == <<<<1, 0, 0, 0>>, <<0, 0, 1, 0>>, <<-3, 3, -2, -1>>, <<2, -2, 1, 1>>>>

D == <<<<1, 0, -3, 2>>, <<0, 0, 3, -2>>, <<0, 1, -2, 1>>, <<0, 0, -1, 1>>>>

\* a @ b for 4 x 4 matrices
MatMul(a, b) ==
    [i \in 1..4 |-> [j \in 1..4 |->
        a[i][1] * b[1][j] + a[i][2] * b[2][j] + a[i][3] * b[3][j]
        + a[i][4] * b[4][j]]]

\* Whether the assignments into F raise: an empty selection cannot be
\* broadcast into the 2 x 2 block.
compute_bicubic_coefficients_raises(self, col, row) ==
    Len(slice(col, self.image.h)) = 0 \/ Len(slice(row, self.image.w)) = 0

\* _compute_bicubic_coefficients
compute_bicubic_coefficients(self, col, row) ==
    LET F == [i \in 1..4 |-> [j \in 1..4 |->
                 flipud_block(IF i <= 2 /\ j <= 2 THEN self.image
                              ELSE IF j <= 2 THEN Val(self.dy)
                              ELSE IF i <= 2 THEN Val(self.dx)
                              ELSE Val(self.dxy),
                              col, row, (i - 1) % 2, (j - 1) % 2)]]
    IN  MatMul(MatMul(C, F), D)

\* int(np.floor(x))
floor(x) == x[1] \div x[2]

\* np.array([1, x, x**2, x**3])
powers(x) == <<R(1), x, RMul(x, x), RMul(x, RMul(x, x))>>

\* xs.dot(coeffs.dot(ys))
dot(xs, coeffs, ys) ==
    LET inner == [i \in 1..4 |->
                     RAdd(RAdd(RMul(R(coeffs[i][1]), ys[1]),
                               RMul(R(coeffs[i][2]), ys[2])),
                          RAdd(RMul(R(coeffs[i][3]), ys[3]),
                               RMul(R(coeffs[i][4]), ys[4])))]
    IN  RAdd(RAdd(RMul(xs[1], inner[1]), RMul(xs[2], inner[2])),
             RAdd(RMul(xs[3], inner[3]), RMul(xs[4], inner[4])))

\* None in (self.dx, self.dy, self.dxy): an unset member is found by
\* identity; an array member is compared with None element by element, and
\* the truth value of a comparison of more than one element raises
\* ValueError.
none_in_raises(self) ==
    self.dx # None /\ self.image.h * self.image.w > 1

\* __init__
BicubicImageInterpolator(image) ==
    [image |-> image, dx |-> None, dy |-> None, dxy |-> None,
     coefficient_cache |-> <<>>]

Interpolated(row, col, raised, ret) ==
    [op |-> "__call__", raised |-> raised, check |-> None,
     args |-> [row |-> row, col |-> col], ret |-> ret]

InitImage ==
    /\ NoSurface
    /\ call = Returned("__init__")
    /\ fs = Idle
    /\ gu = Idle
    /\ bf = Idle
    /\ zn = Idle
    /\ interpolator \in {BicubicImageInterpolator(image) : image \in Images}

\* __call__(row, col).  _validate_point does nothing.
Interpolate ==
    \E row \in ImagePoints, col \in ImagePoints :
        LET xmin == floor(col)
            x == RSub(col, R(xmin))
            ymin == floor(row)
            y == RSub(row, R(ymin))
            self == IF interpolator.dx = None THEN compute_sobel(interpolator)
                                              ELSE interpolator
            key == <<ymin, xmin>>
            cache == self.coefficient_cache
            hit == key \in DOMAIN cache
            coeffs == IF hit THEN cache[key]
                      ELSE compute_bicubic_coefficients(self, xmin, ymin)
        IN  IF none_in_raises(interpolator)
            THEN /\ call' = Interpolated(row, col, "ValueError", None)
                 /\ UNCHANGED interpolator
            ELSE IF ~hit /\ compute_bicubic_coefficients_raises(self, xmin, ymin)
            THEN /\ call' = Interpolated(row, col, "ValueError", None)
                 /\ interpolator' = self
            ELSE /\ call' = Interpolated(row, col, "none",
                                         Some(dot(powers(x), coeffs, powers(y))))
                 /\ interpolator' =
                        [self EXCEPT !.coefficient_cache =
                            [k \in DOMAIN cache \cup {key} |->
                                IF k = key THEN coeffs ELSE cache[k]]]

NextImage ==
    Interpolate /\ UNCHANGED <<surface, fs, gu, bf, zn>>

SpecImage == InitImage /\ [][NextImage]_vars

(***************************************************************************)
(* util/minimand.py.  A 2-D array is its shape and its elements in row     *)
(* order; mean, std and sum reduce over all elements.  The standard        *)
(* deviation is the square root of the variance and is not a rational in   *)
(* general, so an element of a zero-normalized array, (x - mean) / std, is *)
(* kept as its deviation x - mean together with the variance, and          *)
(* np.square of it is the exact quotient deviation^2 / variance.  A        *)
(* constant array has std 0, and the division yields numpy's non-finite    *)
(* result.                                                                 *)
(***************************************************************************)
Arrays == {[shape |-> <<2, 2>>, data |-> data] : data \in [1..4 -> 0..2]}

RECURSIVE sum(_)
sum(xs) == IF xs = <<>> THEN R(0) ELSE FAdd(Head(xs), sum(Tail(xs)))

\* array - array.mean(), in row order
deviations(array) ==
    LET xs == array.data
        mean == RDiv(sum([i \in 1..Len(xs) |-> R(xs[i])]), R(Len(xs)))
    IN  [i \in 1..Len(xs) |-> RSub(R(xs[i]), mean)]

\* array.std() ** 2: the mean of the squared deviations
variance(array) ==
    LET ds == deviations(array)
    IN  RDiv(sum([i \in 1..Len(ds) |-> RMul(ds[i], ds[i])]), R(Len(ds)))

\* np.square((array - array.mean()) / array.std())
square_bar(array) ==
    LET ds == deviations(array)
    IN  [i \in 1..Len(ds) |-> FDiv(RMul(ds[i], ds[i]), variance(array))]

zero_normalized_sum_of_square_difference(array_f, array_g) ==
    LET f2 == square_bar(array_f)
        g2 == square_bar(array_g)
    IN  sum([i \in 1..Len(f2) |-> FSub(f2[i], g2[i])])

InitMinimand ==
    /\ NoSurface
    /\ call = Returned("__init__")
    /\ fs = Idle
    /\ gu = Idle
    /\ bf = Idle
    /\ interpolator = Idle
    /\ zn \in {[pc |-> "call", array_f |-> f, array_g |-> g, znssd |-> None] :
               f \in Arrays, g \in Arrays}

zero_normalized_sum_of_square_difference_call ==
    /\ zn.pc = "call"
    /\ zn' = [zn EXCEPT !.pc = "done",
                        !.znssd = Some(zero_normalized_sum_of_square_difference(
                                           zn.array_f, zn.array_g))]

NextMinimand ==
    zero_normalized_sum_of_square_difference_call
    /\ UNCHANGED <<surface, call, fs, gu, bf, interpolator>>

SpecMinimand == InitMinimand /\ [][NextMinimand]_vars

(***************************************************************************)
(* util/spline_knot.py: check_knot_vector called on its own, on vectors of *)
(* small values and on vectors of [0, 1] with entries inside the           *)
(* tolerances of allclose: 1e-8 of 0 and 1e-5 of 1.                        *)
(***************************************************************************)
CheckShapes == {<<1, 2>>, <<1, 3>>, <<2, 2>>}

CheckVectors ==
    LET small == {R(0), Rat(1, 2), R(1), R(2)}
        close == {R(0), Rat(1, 100000000), Rat(1, 2), Rat(99999, 100000), R(1)}
    IN  UNION {SeqsOfLen(small, len)
               \cup {kv \in SeqsOfLen(close, len) :
                        R(0) \in Range(kv) /\ R(1) \in Range(kv)} :
               len \in 4..5}

CheckStart ==
    {[pc |-> "check", degree |-> shape[1], num_ctrlpts |-> shape[2],
      knot_vector |-> knot_vector, check |-> FALSE] :
        shape \in CheckShapes, knot_vector \in CheckVectors}

check_knot_vector_call ==
    /\ gu.pc = "check"
    /\ gu' = [gu EXCEPT !.pc = "checked",
                        !.check = check_knot_vector(gu.degree, gu.knot_vector,
                                                    gu.num_ctrlpts)]

\* find_multiplicity: the number of entries np.isclose to the knot.
find_multiplicity(knot, knot_vector) ==
    Cardinality({i \in 1..Len(knot_vector) :
                    AllClose(knot, knot_vector[i], RtolInvDefault)})

\* curve_knot_insertion, "Load new values": the new knot vector, a
\* function from 0 while it is filled and the sequence of its entries at
\* the end.
curve_knot_insertion_load_overwriting(inserted_knot_span, old_knot_vector, old_knot_vector_length, inserted_knot, num_inserts) ==
    LET new_knot_vector_length == Len(old_knot_vector) + num_inserts
        kv1 == For(LAMBDA i, kv : [kv EXCEPT ![i] = At(old_knot_vector, i)],
                   0, inserted_knot_span,
                   [i \in 0..(new_knot_vector_length - 1) |-> R(0)])
        kv2 == For(LAMBDA i, kv :
                       [kv EXCEPT ![inserted_knot_span + i] = inserted_knot],
                   1, num_inserts, kv1)
        kv3 == For(LAMBDA i, kv :
                       [kv EXCEPT ![i + 1] = At(old_knot_vector, i)],
                   inserted_knot_span + 1, old_knot_vector_length - 1, kv2)
    IN  [i \in 1..new_knot_vector_length |-> kv3[i - 1]]

curve_knot_insertion_load(inserted_knot_span, old_knot_vector, old_knot_vector_length, inserted_knot, num_inserts) ==
    LET new_knot_vector_length == Len(old_knot_vector) + num_inserts
        kv1 == For(LAMBDA i, kv : [kv EXCEPT ![i] = At(old_knot_vector, i)],
                   0, inserted_knot_span,
                   [i \in 0..(new_knot_vector_length - 1) |-> R(0)])
        kv2 == For(LAMBDA i, kv :
                       [kv EXCEPT ![inserted_knot_span + i] = inserted_knot],
                   1, num_inserts, kv1)
        kv3 == For(LAMBDA i, kv :
                       [kv EXCEPT ![i + num_inserts] = At(old_knot_vector, i)],
                   inserted_knot_span + 1, old_knot_vector_length - 1, kv2)
    IN  [i \in 1..new_knot_vector_length |-> kv3[i - 1]]

\* curve_knot_insertion.  Arrays are functions from 0; the control points
\* and the rows of R are triples.  A negative index counts from the end of
\* the array, and one outside the array raises IndexError.  The loops over
\* the knot vector and the first loops over the control points stay inside
\* their arrays for a vector of length len(old_ctrlpts) + degree + 1.
curve_knot_insertion(degree, old_knot_vector, old_ctrlpts, inserted_knot, num_inserts) ==
    LET inserted_knot_span == find_span(Len(old_ctrlpts), degree,
                                        inserted_knot, old_knot_vector)
        knot_multiplicity == find_multiplicity(inserted_knot, old_knot_vector)
        old_knot_vector_length == Len(old_ctrlpts) + degree + 1
        num_new == Len(old_ctrlpts) + num_inserts
        index(i, len) == IF i < 0 THEN i + len ELSE i
        zeros3 == <<R(0), R(0), R(0)>>
        blend(alpha, a, b) ==
            [c \in 1..3 |-> FAdd(FMul(alpha, a[c]),
                                  FMul(FSub(R(1), alpha), b[c]))]
        kv3 == curve_knot_insertion_load(inserted_knot_span, old_knot_vector,
                                         old_knot_vector_length, inserted_knot,
                                         num_inserts)
        q1 == For(LAMBDA i, q : [q EXCEPT ![i] = At(old_ctrlpts, i)],
                  0, inserted_knot_span - degree,
                  [i \in 0..(num_new - 1) |-> zeros3])
        q2 == For(LAMBDA i, q :
                      [q EXCEPT ![index(i + num_inserts, num_new)] =
                                    At(old_ctrlpts, index(i, Len(old_ctrlpts)))],
                  inserted_knot_span - knot_multiplicity,
                  Len(old_ctrlpts) - 1, q1)
        r1 == For(LAMBDA i, r :
                      [r EXCEPT ![i] = At(old_ctrlpts,
                                          inserted_knot_span - degree + i)],
                  0, degree - knot_multiplicity,
                  [i \in 0..degree |-> zeros3])
        insert ==
            For(LAMBDA j, st :
                    LET L == inserted_knot_span - degree + j
                        top == degree - j - knot_multiplicity
                        r2 == For(LAMBDA i, r :
                                      LET alpha ==
                                              FDiv(RSub(inserted_knot,
                                                        At(old_knot_vector, L + i)),
                                                   RSub(At(old_knot_vector,
                                                           i + inserted_knot_span + 1),
                                                        At(old_knot_vector, L + i)))
                                      IN  [r EXCEPT ![i] = blend(alpha, r[i + 1], r[i])],
                                  0, top, st.R)
                        q3 == [st.new_ctrlpts EXCEPT ![L] = r2[0]]
                    IN  IF st.raised # "none" THEN st
                        ELSE IF top < -(degree + 1)
                        THEN [st EXCEPT !.raised = "IndexError",
                                        !.R = r2, !.new_ctrlpts = q3]
                        ELSE [st EXCEPT
                                 !.R = r2,
                                 !.new_ctrlpts =
                                     [q3 EXCEPT
                                         ![index(inserted_knot_span + num_inserts
                                                 - j - knot_multiplicity, num_new)]
                                             = r2[index(top, degree + 1)]]],
                1, num_inserts,
                [raised |-> "none", R |-> r1, new_ctrlpts |-> q2])
        last == inserted_knot_span - degree + num_inserts
        q4 == For(LAMBDA i, q : [q EXCEPT ![i] = insert.R[i - last]],
                  last + 1, inserted_knot_span - knot_multiplicity - 1,
                  insert.new_ctrlpts)
    IN  IF insert.raised # "none"
        THEN [raised |-> insert.raised, new_knot_vector |-> <<>>,
              new_ctrlpts |-> <<>>]
        ELSE [raised |-> "none",
              new_knot_vector |-> [i \in 1..Len(kv3) |-> kv3[i]],
              new_ctrlpts |-> [i \in 1..num_new |-> q4[i - 1]]]

\* Valid clamped vectors over BasisKnots and the uniform vector of each
\* shape, each with the knot values inside its domain, one to four
\* insertions and control points that are unit vectors, so that the
\* weights of a combination can be read off the result.
InsertStart ==
    LET units == <<<<R(1), R(0), R(0)>>, <<R(0), R(1), R(0)>>,
                   <<R(0), R(0), R(1)>>>>
    IN  UNION {
        {st \in
         {[pc |-> "insert",
          args |-> [degree |-> shape[1], num_ctrlpts |-> shape[2],
                    knot_vector |-> knot_vector, knot |-> knot,
                    ctrlpts |-> [i \in 1..shape[2] |-> units[((i + o) % 3) + 1]],
                    num_inserts |-> num_inserts],
          ret |-> None] :
            knot_vector \in {kv \in ClampedVectors(BasisKnots, shape[1], shape[2]) :
                                check_knot_vector(shape[1], kv, shape[2])}
                            \cup {generate_uniform(shape[1], shape[2])},
            knot \in BasisKnotValues \cup {Rat(1, 4), Rat(3, 4)},
            o \in 0..2, num_inserts \in 1..4} :
            /\ RLe(At(st.args.knot_vector, shape[1]), st.args.knot)
            /\ RLe(st.args.knot, At(st.args.knot_vector, shape[2]))} :
        shape \in {<<1, 2>>, <<1, 3>>, <<2, 3>>, <<2, 4>>, <<2, 6>>}}

curve_knot_insertion_call ==
    /\ fs.pc = "insert"
    /\ fs' = [fs EXCEPT !.pc = "inserted",
                        !.ret = Some(curve_knot_insertion(fs.args.degree,
                                         fs.args.knot_vector, fs.args.ctrlpts,
                                         fs.args.knot, fs.args.num_inserts))]

InitKnotVector ==
    /\ NoSurface
    /\ bf = Idle
    /\ interpolator = Idle
    /\ zn = Idle
    /\ \/ gu \in CheckStart /\ fs = Idle
       \/ gu = Idle /\ fs \in InsertStart

NextKnotVector ==
    \/ check_knot_vector_call
       /\ UNCHANGED <<surface, call, fs, bf, interpolator, zn>>
    \/ curve_knot_insertion_call
       /\ UNCHANGED <<surface, call, gu, bf, interpolator, zn>>

SpecKnotVector == InitKnotVector /\ [][NextKnotVector]_vars

(***************************************************************************)
(* Properties of the surface setters (Spec).                               *)
(***************************************************************************)
\* C1: assigning control_points while degree_u or degree_v is unset raises
\* ValueError at the assignment and the stored control points stay unset.
C1_ControlPointsGuard ==
    [][(call'.op = "control_points" /\ (degree_u = None \/ degree_v = None))
         => (call'.raised = "ValueError" /\ control_points' = None)]_vars

\* degree_u was set through the setter, degree_v is still unset.
C1_Witness ==
    /\ call.op = "control_points"
    /\ call.raised = "ValueError"
    /\ degree_u # None
    /\ Val(degree_u) >= 1
    /\ degree_v = None
    /\ control_points = None

\* C2: assigning knot_vector_u (knot_vector_v) raises ValueError whenever
\* that direction's degree, the control points or that direction's count
\* is unset, whatever the vector; the stored knot vector stays unset.
C2_KnotVectorGuard ==
    [][/\ (call'.op = "knot_vector_u"
             /\ (degree_u = None \/ control_points = None
                    \/ num_control_points_u = None))
          => (call'.raised = "ValueError" /\ knot_vector_u' = None)
       /\ (call'.op = "knot_vector_v"
             /\ (degree_v = None \/ control_points = None
                    \/ num_control_points_v = None))
          => (call'.raised = "ValueError" /\ knot_vector_v' = None)]_vars

\* The degrees and the count are set, the control points are not.
C2_Witness ==
    /\ call.op = "knot_vector_u"
    /\ call.raised = "ValueError"
    /\ degree_u # None
    /\ degree_v # None
    /\ num_control_points_u # None
    /\ control_points = None
    /\ knot_vector_u = None

\* C3: with all prerequisites set, assigning a vector that fails
\* check_knot_vector raises a validation error at the assignment and leaves
\* the stored knot vector unchanged.
C3_InvalidKnotVectorRaises ==
    [][/\ (call'.op = "knot_vector_u"
             /\ degree_u # None /\ control_points # None
             /\ num_control_points_u # None
             /\ call'.check # Some(TRUE))
          => (call'.raised = "ValueError" /\ knot_vector_u' = knot_vector_u)
       /\ (call'.op = "knot_vector_v"
             /\ degree_v # None /\ control_points # None
             /\ num_control_points_v # None
             /\ call'.check # Some(TRUE))
          => (call'.raised = "ValueError" /\ knot_vector_v' = knot_vector_v)]_vars

\* C4: each of degree_u and degree_v is unset or an integer >= 1.
C4_DegreeAtLeastOne ==
    /\ degree_u = None \/ Val(degree_u) >= 1
    /\ degree_v = None \/ Val(degree_v) >= 1

\* C5: whenever a direction's degree and count are both set, the count is at
\* least degree + 1.
C5_CountAtLeastDegreePlusOne ==
    /\ (degree_u # None /\ num_control_points_u # None)
          => Val(num_control_points_u) >= Val(degree_u) + 1
    /\ (degree_v # None /\ num_control_points_v # None)
          => Val(num_control_points_v) >= Val(degree_v) + 1

\* C6: a stored knot vector passes check_knot_vector for its direction's
\* current degree and current control-point count.
C6_StoredKnotVectorValid ==
    /\ knot_vector_u # None
          => check_knot_vector(Val(degree_u), Val(knot_vector_u),
                               Val(num_control_points_u))
    /\ knot_vector_v # None
          => check_knot_vector(Val(degree_v), Val(knot_vector_v),
                               Val(num_control_points_v))

(***************************************************************************)
(* Properties of the knot vector utilities (SpecKnot).                     *)
(***************************************************************************)
DomainMin(args) == At(args.knot_vector, args.degree)

DomainMax(args) == At(args.knot_vector, args.num_ctrlpts)

InDomain(args) == RLe(DomainMin(args), args.knot) /\ RLe(args.knot, DomainMax(args))

\* knot_vector[s] <= knot <= knot_vector[s + 1]
SpanContains(args, s) ==
    /\ RLe(At(args.knot_vector, s), args.knot)
    /\ RLe(args.knot, At(args.knot_vector, s + 1))

\* C7: for a clamped knot vector, find_span with a knot value equal to the
\* domain maximum knot_vector[num_ctrlpts] returns num_ctrlpts - 1.
C7_FindSpanAtDomainMax ==
    (fs.pc = "done" /\ fs.args.knot = DomainMax(fs.args))
        => fs.ret = fs.args.num_ctrlpts - 1

\* The vector has an interior knot and a domain of positive width.
C7_Witness ==
    /\ fs.pc = "done"
    /\ fs.args.knot = DomainMax(fs.args)
    /\ RLt(DomainMin(fs.args), DomainMax(fs.args))
    /\ fs.args.num_ctrlpts > fs.args.degree + 1

C9_GenerateUniformPassesCheck ==
    (gu.pc = "done" /\ gu.degree >= 1 /\ gu.num_ctrlpts >= gu.degree + 1)
        => /\ Len(gu.knot_vector) = gu.num_ctrlpts + gu.degree + 1
           /\ gu.check

\* A vector with interior knots was generated.
C9_Witness ==
    /\ gu.pc = "done"
    /\ gu.degree >= 1
    /\ gu.num_ctrlpts > gu.degree + 1
    /\ gu.check

\* C19: for a valid clamped knot vector and a knot value in the domain
\* strictly below its maximum, find_span returns s with
\* knot_vector[s] <= knot < knot_vector[s + 1]: a knot value equal to an
\* interior knot gets the span that starts at it, and the span returned
\* never has zero width.
C19_FindSpanHalfOpen ==
    (/\ fs.pc = "done"
     /\ check_knot_vector(fs.args.degree, fs.args.knot_vector,
                          fs.args.num_ctrlpts)
     /\ RLe(DomainMin(fs.args), fs.args.knot)
     /\ RLt(fs.args.knot, DomainMax(fs.args)))
        => /\ RLe(At(fs.args.knot_vector, fs.ret), fs.args.knot)
           /\ RLt(fs.args.knot, At(fs.args.knot_vector, fs.ret + 1))

(***************************************************************************)
(* Properties of the basis function evaluator (SpecBasis).                 *)
(***************************************************************************)
RECURSIVE SumTo(_, _)
SumTo(N, k) == IF k < 0 THEN R(0) ELSE FAdd(N[k], SumTo(N, k - 1))

\* The span has positive width and the knot value lies in it.
InSpan(args) ==
    /\ RLt(At(args.knot_vector, args.knot_span),
           At(args.knot_vector, args.knot_span + 1))
    /\ RLe(At(args.knot_vector, args.knot_span), args.knot)
    /\ RLe(args.knot, At(args.knot_vector, args.knot_span + 1))

\* C10 (partition of unity): for a valid clamped knot vector and a knot
\* value inside a span s with knot_vector[s] < knot_vector[s + 1], the
\* degree + 1 values of basis_functions are non-negative and sum to 1.
C10_PartitionOfUnity ==
    (bf.pc = "done" /\ InSpan(bf.args))
        => /\ DOMAIN bf.N = 0..bf.args.degree
           /\ \A i \in 0..bf.args.degree :
                 IsFinite(bf.N[i]) /\ RLe(R(0), bf.N[i])
           /\ SumTo(bf.N, bf.args.degree) = R(1)

\* A degree 2 evaluation strictly inside a span, with all three basis
\* values positive.
C10_Witness ==
    /\ bf.pc = "done"
    /\ InSpan(bf.args)
    /\ bf.args.degree = 2
    /\ \A i \in 0..2 : IsFinite(bf.N[i]) /\ RLt(R(0), bf.N[i])

\* The knot vector passes check_knot_vector, the knot value lies in its
\* domain and knot_span is the span find_span returns for it.
SpanFound(args) ==
    /\ check_knot_vector(args.degree, args.knot_vector, args.num_ctrlpts)
    /\ InDomain(args)
    /\ args.knot_span = find_span(args.num_ctrlpts, args.degree, args.knot,
                                  args.knot_vector)

InHalfOpenSpan(args) ==
    \/ /\ RLe(At(args.knot_vector, args.knot_span), args.knot)
       /\ RLt(args.knot, At(args.knot_vector, args.knot_span + 1))
    \/ /\ args.knot = DomainMax(args)
       /\ RLt(At(args.knot_vector, args.num_ctrlpts - 1), DomainMax(args))

C15_OneBasisFunctionDersAgrees ==
    (/\ bf.pc = "one_ders"
     /\ SpanFound(bf.args)
     /\ RLt(bf.args.knot, DomainMax(bf.args)))
        => \A i \in Window(bf.args) : \A k \in 0..bf.args.deriv_order :
              LET j == i - (bf.args.knot_span - bf.args.degree)
              IN  IsFinite(bf.ders[j, k]) /\ bf.one_ders[i][k] = bf.ders[j, k]

(***************************************************************************)
(* Properties of the surface evaluators (SpecEval).                        *)
(***************************************************************************)
\* Control point (i, j) of the grid: row i * num_v + j of the array.
CtrlPt(i, j) ==
    <<At(Val(control_points).x, i * Val(num_control_points_v) + j),
      At(Val(control_points).y, i * Val(num_control_points_v) + j)>>

\* The first and the last knot of both stored vectors are 0 and 1.
ClampedOnUnit ==
    /\ Val(knot_vector_u)[1] = R(0)
    /\ Val(knot_vector_u)[Len(Val(knot_vector_u))] = R(1)
    /\ Val(knot_vector_v)[1] = R(0)
    /\ Val(knot_vector_v)[Len(Val(knot_vector_v))] = R(1)

\* The corner control point for a parameter pair of zeros and ones.
Corner(u, v) ==
    CtrlPt(IF u = R(0) THEN 0 ELSE Val(num_control_points_u) - 1,
           IF v = R(0) THEN 0 ELSE Val(num_control_points_v) - 1)

\* C11: on a fully constructed surface whose knot vectors are clamped on
\* [0, 1], single_point at each of the four parametric corners returns
\* exactly the corresponding corner control point.
C11_CornersInterpolate ==
    (/\ call.op = "single_point"
     /\ ClampedOnUnit
     /\ call.args.u \in {R(0), R(1)}
     /\ call.args.v \in {R(0), R(1)})
        => /\ call.returns
           /\ call.raised = "none"
           /\ call.ret = Some(Corner(call.args.u, call.args.v))

\* No knot is repeated beyond the degree + 1 copies at each end: the first
\* span and the last span of both vectors have positive width.
EndSpansPositive ==
    /\ RLt(R(0), At(Val(knot_vector_u), Val(degree_u) + 1))
    /\ RLt(At(Val(knot_vector_u), Val(num_control_points_u) - 1), R(1))
    /\ RLt(R(0), At(Val(knot_vector_v), Val(degree_v) + 1))
    /\ RLt(At(Val(knot_vector_v), Val(num_control_points_v) - 1), R(1))

\* C11 amended: the corners are interpolated when, in addition, the first
\* and the last span of each knot vector have positive width (no interior
\* knot equals 0 or 1).
C11_CornersInterpolateEndSpans ==
    (/\ call.op = "single_point"
     /\ ClampedOnUnit
     /\ EndSpansPositive
     /\ call.args.u \in {R(0), R(1)}
     /\ call.args.v \in {R(0), R(1)})
        => /\ call.returns
           /\ call.raised = "none"
           /\ call.ret = Some(Corner(call.args.u, call.args.v))

\* The corner (1, 0) of a surface with more than two control points in each
\* direction was evaluated.
C11_Witness ==
    /\ call.op = "single_point"
    /\ ClampedOnUnit
    /\ EndSpansPositive
    /\ call.args.u = R(1)
    /\ call.args.v = R(0)
    /\ Val(num_control_points_u) > 2
    /\ Val(num_control_points_v) > 2
    /\ call.ret = Some(CtrlPt(Val(num_control_points_u) - 1, 0))

\* Some row of the array holds a parameter outside [0, 1].
SomeRowOutside(knot_array) ==
    \E i \in 1..Len(knot_array.rows) :
        ~validate_knot(knot_array.rows[i][1]) \/ ~validate_knot(knot_array.rows[i][2])

\* C12: single_point and derivatives raise ValueError, before any span
\* search or basis evaluation, whenever u or v lies outside [0, 1]; points
\* raises for the whole call, returning no partial list, when the input is
\* not a 2-D array or any one row has a parameter outside [0, 1].
C12_OutsideUnitRaises ==
    /\ (/\ call.op \in {"single_point", "derivatives"}
        /\ ~(validate_knot(call.args.u) /\ validate_knot(call.args.v)))
          => (call.returns /\ call.raised = "ValueError" /\ call.ret = None)
    /\ (/\ call.op = "points"
        /\ (call.args.knot_array.ndim # 2
               \/ SomeRowOutside(call.args.knot_array)))
          => (call.returns /\ call.raised = "ValueError" /\ call.ret = None)

Min(a, b) == IF a < b THEN a ELSE b

\* The derivative of order k in u and l in v at the parameters of the call,
\* on the window of control points single_point uses.
DerivativeOnWindow(k, l) ==
    LET u_span == surface_span_u(call.args.u)
        v_span == surface_span_v(call.args.v)
        ders_u == basis_function_ders(u_span, call.args.u, Val(degree_u),
                                      Val(knot_vector_u), k)
        ders_v == basis_function_ders(v_span, call.args.v, Val(degree_v),
                                      Val(knot_vector_v), l)
    IN  surface_point([a \in 0..Val(degree_u) |-> ders_u[a, k]],
                      [b \in 0..Val(degree_v) |-> ders_v[b, l]],
                      u_span, v_span)

C20_SinglePointReturns ==
    (/\ call.op = "single_point"
     /\ validate_knot(call.args.u)
     /\ validate_knot(call.args.v))
        => call.returns /\ call.raised = "none" /\ call.ret # None

(***************************************************************************)
(* Properties of the image interpolator (SpecImage).                       *)
(***************************************************************************)
PixelPosition(image, args) ==
    /\ args.row[2] = 1 /\ args.row[1] \in 0..(image.h - 1)
    /\ args.col[2] = 1 /\ args.col[1] \in 0..(image.w - 1)

\* C16: a call with an integer pixel position (row, col) of the image
\* returns the image's own pixel value image[row, col].
C16_PixelValues ==
    (call.op = "__call__" /\ PixelPosition(interpolator.image, call.args))
    => /\ call.raised = "none"
       /\ call.ret = Some(R(interpolator.image.px[call.args.row[1],
                                                  call.args.col[1]]))

OutsideImage(image, args) ==
    \/ RLt(args.row, R(0)) \/ RLt(R(image.h - 1), args.row)
    \/ RLt(args.col, R(0)) \/ RLt(R(image.w - 1), args.col)

\* C17: a call with a (row, col) outside the image's valid interior raises
\* ValueError instead of returning a value, and leaves the coefficient
\* cache as it was.  Stated for the points outside the image altogether,
\* which are outside any interior of it.
C17_OutsideRaises ==
    [][(call'.op = "__call__" /\ OutsideImage(interpolator.image, call'.args))
       => /\ call'.raised = "ValueError"
          /\ interpolator'.coefficient_cache = interpolator.coefficient_cache]_vars

(***************************************************************************)
(* Properties of the dissimilarity score (SpecMinimand).                   *)
(***************************************************************************)
Sign(n) == IF n > 0 THEN 1 ELSE IF n < 0 THEN -1 ELSE 0

\* result = sum((f_bar - g_bar)^2), without the square root: the sum is
\* sum(f_bar^2) + sum(g_bar^2) - 2 * S / (std_f * std_g) with S the sum of
\* the products of the deviations, so with B the two sums of squares minus
\* the result it says B * std_f * std_g = 2 * S.
IsSumOfSquaredDifferences(f, g, result) ==
    LET df == deviations(f)
        dg == deviations(g)
        S == sum([i \in 1..Len(df) |-> RMul(df[i], dg[i])])
        B == RSub(RAdd(sum(square_bar(f)), sum(square_bar(g))), result)
    IN  /\ Sign(B[1]) = Sign(S[1])
        /\ RMul(RMul(B, B), RMul(variance(f), variance(g)))
               = RMul(R(4), RMul(S, S))

\* Whether (f - mean(f)) / std(f) and (g - mean(g)) / std(g) differ in
\* some element.
NormalizedFormsDiffer(f, g) ==
    LET df == deviations(f)
        dg == deviations(g)
    IN  \E i \in 1..Len(df) :
            \/ Sign(df[i][1]) # Sign(dg[i][1])
            \/ RMul(RMul(df[i], df[i]), variance(g))
                   # RMul(RMul(dg[i], dg[i]), variance(f))

\* C18: for arrays that are not constant, the result is the sum of the
\* squared differences of the zero-normalized arrays; it is 0 when g is f
\* or f plus a constant, and it is not 0 when the zero-normalized forms
\* differ.
C18_SumOfSquaredDifferences ==
    (/\ zn.pc = "done"
     /\ variance(zn.array_f)[1] # 0
     /\ variance(zn.array_g)[1] # 0)
    => /\ IsSumOfSquaredDifferences(zn.array_f, zn.array_g, Val(zn.znssd))
       /\ deviations(zn.array_f) = deviations(zn.array_g)
              => Val(zn.znssd) = R(0)
       /\ NormalizedFormsDiffer(zn.array_f, zn.array_g)
              => Val(zn.znssd) # R(0)

(***************************************************************************)
(* Properties of check_knot_vector and curve_knot_insertion                *)
(* (SpecKnotVector).                                                       *)
(***************************************************************************)
Accepted == gu.pc = "checked" /\ gu.check

\* C21: whenever check_knot_vector returns True, the vector has length
\* num_ctrlpts + degree + 1, is non-decreasing, its first degree + 1
\* entries all equal its minimum and its last degree + 1 entries all equal
\* its maximum.
C21_AcceptedIsClamped ==
    Accepted
    => /\ Len(gu.knot_vector) = gu.num_ctrlpts + gu.degree + 1
       /\ NonDecreasing(gu.knot_vector)
       /\ \A i \in 0..gu.degree :
              /\ At(gu.knot_vector, i) = SeqMin(gu.knot_vector)
              /\ At(gu.knot_vector, Len(gu.knot_vector) - 1 - i)
                     = SeqMax(gu.knot_vector)

\* C21 amended: the end entries are within the tolerance of allclose of the
\* extremes once the vector is normalised to [0, 1].
C21_AcceptedIsClampedWithinTolerance ==
    Accepted
    => /\ Len(gu.knot_vector) = gu.num_ctrlpts + gu.degree + 1
       /\ NonDecreasing(gu.knot_vector)
       /\ \A i \in 0..gu.degree :
              /\ AllClose(R(0), At(normalize(gu.knot_vector), i),
                          RtolInvDefault)
              /\ AllClose(R(1), At(normalize(gu.knot_vector),
                                   Len(gu.knot_vector) - 1 - i),
                          RtolInvDefault)

\* An accepted vector whose last entries are not all equal: only the entry
\* at -(degree + 1) was compared with 1.
C21_Witness ==
    /\ Accepted
    /\ At(gu.knot_vector, Len(gu.knot_vector) - 1 - gu.degree)
           # SeqMax(gu.knot_vector)

Inserted == fs.pc = "inserted"

\* The old vector with num_inserts copies of the knot put in at one place.
WithCopies(old, knot, num_inserts, new) ==
    \E k \in 0..Len(old) :
        new = SubSeq(old, 1, k) \o [i \in 1..num_inserts |-> knot]
              \o SubSeq(old, k + 1, Len(old))

Boehm(args, i) ==
    LET U == args.knot_vector
        P == args.ctrlpts
        s == Cardinality({j \in 1..Len(U) : U[j] = args.knot})
        k == CHOOSE j \in 0..(Len(U) - 2) :
                 RLe(At(U, j), args.knot) /\ RLt(args.knot, At(U, j + 1))
        a == IF i <= k - args.degree THEN R(1)
             ELSE IF i >= k - s + 1 THEN R(0)
             ELSE RDiv(RSub(args.knot, At(U, i)),
                       RSub(At(U, i + args.degree), At(U, i)))
    IN  [c \in 1..3 |->
            RAdd(IF a = R(0) THEN R(0) ELSE RMul(a, At(P, i)[c]),
                 IF a = R(1) THEN R(0) ELSE RMul(RSub(R(1), a), At(P, i - 1)[c]))]

SingleInsertion ==
    /\ Inserted
    /\ fs.args.num_inserts = 1
    /\ find_multiplicity(fs.args.knot, fs.args.knot_vector) < fs.args.degree

\* C23: for a single insertion of a knot value in the domain whose
\* multiplicity is below the degree, a value equal to an existing interior
\* knot included, the control points returned are those of Boehm's
\* formula.
C23_BoehmControlPoints ==
    SingleInsertion
    => /\ Val(fs.ret).raised = "none"
       /\ \A i \in 0..Len(fs.args.ctrlpts) :
              At(Val(fs.ret).new_ctrlpts, i) = Boehm(fs.args, i)

(***************************************************************************)
(* Properties of the single basis function evaluators (SpecBasis).         *)
(***************************************************************************)
\* The knot vector passes check_knot_vector and the knot value lies in the
\* closed domain [knot_vector[degree], knot_vector[num_ctrlpts]].
ValidInDomain(args) ==
    /\ check_knot_vector(args.degree, args.knot_vector, args.num_ctrlpts)
    /\ InDomain(args)

\* C24: for every valid clamped knot vector, every basis function index and
\* every knot value in the closed domain, both endpoints included, entry 0
\* of one_basis_function_ders(degree, knot_vector, index, knot, n) equals
\* one_basis_function(degree, knot_vector, index, knot).  The windows of the
\* spans degree..num_ctrlpts - 1 cover every index 0..num_ctrlpts - 1.
C24_DersEntryZeroIsValue ==
    (bf.pc = "one_ders" /\ ValidInDomain(bf.args))
        => \A i \in Window(bf.args) : bf.one_ders[i][0] = bf.one[i]

\* C25: for every knot vector accepted by check_knot_vector, repeated
\* interior knots allowed, and every knot value in its domain,
\* basis_functions and basis_function_ders called with the span returned by
\* find_span never divide by zero: a zero denominator
\* right[r + 1] + left[j - r] makes the quotient, and every entry computed
\* from it, infinite or NaN, so every entry returned is finite.
C25_NoDivisionByZero ==
    (bf.pc = "ders" /\ SpanFound(bf.args))
        => /\ \A j \in 0..bf.args.degree : IsFinite(bf.N[j])
           /\ \A k \in 0..bf.args.deriv_order : \A j \in 0..bf.args.degree :
                 IsFinite(bf.ders[j, k])

(***************************************************************************)
(* Call history of the image interpolator (SpecImage).                     *)
(***************************************************************************)
\* The outcome of __call__(row, col) as the first call of a fresh instance
\* built on the image.
FirstCall(image, row, col) ==
    LET self == compute_sobel(BicubicImageInterpolator(image))
        xmin == floor(col)
        ymin == floor(row)
    IN  IF compute_bicubic_coefficients_raises(self, xmin, ymin)
        THEN [raised |-> "ValueError", ret |-> None]
        ELSE [raised |-> "none",
              ret |-> Some(dot(powers(RSub(col, R(xmin))),
                               compute_bicubic_coefficients(self, xmin, ymin),
                               powers(RSub(row, R(ymin)))))]

\* C26: the result of a call does not depend on the call history: after any
\* earlier calls, a call has the outcome that the same call has on a fresh
\* instance built on the same image; the gradient fields, once computed,
\* stay as they are, and a cell's cached coefficients, once stored, are
\* never changed.
C26_HistoryIndependent ==
    [][call'.op = "__call__"
       => LET fresh == FirstCall(interpolator.image, call'.args.row,
                                 call'.args.col)
          IN  /\ call'.raised = fresh.raised
              /\ call'.ret = fresh.ret
              /\ interpolator'.image = interpolator.image
              /\ interpolator.dx # None
                    => /\ interpolator'.dx = interpolator.dx
                       /\ interpolator'.dy = interpolator.dy
                       /\ interpolator'.dxy = interpolator.dxy
              /\ \A key \in DOMAIN interpolator.coefficient_cache :
                    /\ key \in DOMAIN interpolator'.coefficient_cache
                    /\ interpolator'.coefficient_cache[key]
                           = interpolator.coefficient_cache[key]]_vars

====
